---- MODULE Spec2Model ----
(***************************************************************************)
(* Verification model of the ZenML AWS App Runner deployer                 *)
(* (src/zenml/integrations/aws/deployers/aws_deployer.py) and of the       *)
(* request-scoped serving runtime (src/zenml/deployers/server/runtime.py). *)
(*                                                                         *)
(* Part I models runtime.py: a ContextVar holding a reference to a         *)
(* _DeploymentState object.  Objects live in a small heap (objs); every    *)
(* execution context maps the ContextVar to one heap object (ctx).         *)
(* Object 0 is the single module-level default _DeploymentState() that     *)
(* every context sees until it calls start().                              *)
(***************************************************************************)
EXTENDS Integers, FiniteSets, Sequences, TLC

(* ------------------------------ bounds --------------------------------- *)
NCtx == 2          \* execution contexts (threads / tasks / copied contexts)
MaxOps == 4        \* runtime operations explored per behaviour

Ctx == 1..NCtx
ObjId == 0..NCtx   \* 0 is the ContextVar default object
Steps == {"s1", "s2"}
Names == {"a", "b"}
Uris == {"u1"}
ParamNames == {"p", "q"}
RequestIds == {"r1"}
SnapshotIds == {"snap1"}

(* ------------------------------ values --------------------------------- *)
(* A payload is opaque to runtime.py.  w records which context wrote it    *)
(* (0: a context that has not called start() itself), v is the payload.    *)
(* For pipeline parameters, k = "" is a scalar and k = n is the nested     *)
(* value {n: payload}.  None is Python's None / a missing key.             *)
None == [w |-> 0, v |-> 0, k |-> ""]
Value(w, v) == [w |-> w, v |-> v, k |-> ""]
Nested(w, v, n) == [w |-> w, v |-> v, k |-> n]
ValuesOf(w) == {Value(w, 1), Value(w, 2)}
EmptyOf(K) == [x \in K |-> None]

\* A Dict[str, Any] step-output map: has = FALSE is "step key not present".
NoDict == [has |-> FALSE, d |-> EmptyOf(Names)]
MkDict(f) == [has |-> TRUE, d |-> f]

VARIABLES
    objs,      \* heap: ObjId -> _DeploymentState
    ctx,       \* Ctx -> ObjId: what _deployment_context.get() returns
    started,   \* Ctx -> BOOLEAN: the context has called start() itself
    held,      \* the value most recently returned by get_outputs() to a caller
    last,      \* the operation that produced this state
    acted,     \* how many contexts have performed an operation so far
    nops       \* number of runtime operations performed

rtvars == <<objs, ctx, started, held, last, acted, nops>>

\* _DeploymentState() with its field defaults
DeploymentState ==
    [active |-> FALSE,
     use_in_memory |-> FALSE,
     request_id |-> "",
     snapshot_id |-> "",
     pipeline_parameters |-> EmptyOf(ParamNames),
     outputs |-> [s \in Steps |-> NoDict],
     in_memory_data |-> EmptyOf(Uris)]

\* reset() that forgets in_memory_data.clear()
reset_keeps_cache(st) ==
    [st EXCEPT !.active = FALSE,
               !.request_id = "",
               !.snapshot_id = "",
               !.pipeline_parameters = EmptyOf(ParamNames),
               !.outputs = [s \in Steps |-> NoDict],
               !.use_in_memory = FALSE]

\* _DeploymentState.reset
reset(st) ==
    [st EXCEPT !.active = FALSE,
               !.request_id = "",
               !.snapshot_id = "",
               !.pipeline_parameters = EmptyOf(ParamNames),
               !.outputs = [s \in Steps |-> NoDict],
               !.use_in_memory = FALSE,
               !.in_memory_data = EmptyOf(Uris)]

\* _get_context(): the state object of the calling context
get_context(c) == objs[ctx[c]]

(* ------------------------- read-only functions -------------------------- *)
is_active(c) == get_context(c).active

\* dict(state.outputs): a new outer dict whose values are the SAME inner
\* dict objects as the state's ("alias"), not copies of them.
get_outputs(c) ==
    [s \in Steps |->
        IF get_context(c).outputs[s].has
        THEN [kind |-> "alias", d |-> EmptyOf(Names)]
        ELSE [kind |-> "none", d |-> EmptyOf(Names)]]

\* What a caller reads in the result of get_outputs(): step -> name -> value.
OutputsContent(c) == get_context(c).outputs

\* get_parameter_override that falls back to a lookup inside nested values
get_parameter_override_nested(c, name) ==
    IF ~objs[ctx[c]].active THEN None
    ELSE LET pipeline_params == objs[ctx[c]].pipeline_parameters IN
         IF \A n \in ParamNames : pipeline_params[n] = None THEN None
         ELSE IF pipeline_params[name] # None THEN pipeline_params[name]
         ELSE IF \E n \in ParamNames : pipeline_params[n].k = name
              THEN LET n == CHOOSE n \in ParamNames : pipeline_params[n].k = name
                   IN  Value(pipeline_params[n].w, pipeline_params[n].v)
              ELSE None

get_parameter_override(c, name) ==
    IF ~is_active(c) THEN None
    ELSE LET pipeline_params == get_context(c).pipeline_parameters IN
         IF \A n \in ParamNames : pipeline_params[n] = None THEN None
         ELSE pipeline_params[name]

should_use_in_memory_mode(c) ==
    IF is_active(c) THEN get_context(c).use_in_memory ELSE FALSE

get_in_memory_data(c, uri) ==
    IF is_active(c) THEN get_context(c).in_memory_data[uri] ELSE None

has_in_memory_data(c, uri) ==
    IF is_active(c) THEN get_context(c).in_memory_data[uri] # None ELSE FALSE

(* ----------------------------- heap helpers ----------------------------- *)
NoHeld == [obj |-> 0, c |-> 0,
           outer |-> [s \in Steps |-> [kind |-> "none", d |-> EmptyOf(Names)]]]

\* The content a caller sees through the held get_outputs() result.
HeldContent ==
    [s \in Steps |->
        IF held.outer[s].kind = "alias" THEN objs[held.obj].outputs[s]
        ELSE IF held.outer[s].kind = "own" THEN MkDict(held.outer[s].d)
        ELSE NoDict]

\* Inner dicts of the objects in D leave the heap state (outputs.clear() or
\* the object became unreachable): the held result keeps them alive on its own.
Detach(h, D) ==
    IF h.obj \in D
    THEN [h EXCEPT !.outer =
            [s \in Steps |->
                IF h.outer[s].kind = "alias"
                THEN [kind |-> "own", d |-> objs[h.obj].outputs[s].d]
                ELSE h.outer[s]]]
    ELSE h

\* Objects no context refers to any more (garbage): their slots are blanked.
Unreachable(cx) == {o \in 1..NCtx : \A d \in Ctx : cx[d] # o}

\* The request left recorded outputs and in-memory data in the state.
Dirty(st) ==
    /\ \E s \in Steps : st.outputs[s].has
    /\ \E u \in Uris : st.in_memory_data[u] # None

Tag(c) == IF started[c] THEN c ELSE 0

\* The (parameters, use_in_memory) arguments a caller of start() in context
\* c passes: no parameters, one scalar, one nested value, two scalars.
StartInputs(c) ==
    {[parameters |-> EmptyOf(ParamNames), use_in_memory |-> FALSE],
     [parameters |-> [EmptyOf(ParamNames) EXCEPT !["p"] = Value(c, 1)],
      use_in_memory |-> TRUE],
     [parameters |-> [EmptyOf(ParamNames) EXCEPT !["p"] = Nested(c, 1, "q")],
      use_in_memory |-> FALSE],
     [parameters |-> [p |-> Value(c, 1), q |-> Value(c, 2)],
      use_in_memory |-> TRUE]}

\* The (step_name, outputs) arguments of record_step_outputs: every name of
\* a step, one name again with another value, another step, no outputs.
RecordInputs(w) ==
    {[step_name |-> "s1", outputs |-> [n \in Names |-> Value(w, 1)]],
     [step_name |-> "s1",
      outputs |-> [EmptyOf(Names) EXCEPT !["a"] = Value(w, 2)]],
     [step_name |-> "s2",
      outputs |-> [EmptyOf(Names) EXCEPT !["b"] = Value(w, 1)]],
     [step_name |-> "s1", outputs |-> EmptyOf(Names)]}

\* Contexts are numbered in the order in which they first act.
InOrder(c) == c <= acted + 1
Acted(c) == IF c > acted THEN c ELSE acted

(* ------------------------------ operations ------------------------------ *)
\* start() that mutates the object the ContextVar currently refers to
current_state_slot(c) == ctx[c]

\* runtime.py:90 "state = _DeploymentState()": the slot of the NEW object.
\* Any slot no other context refers to will do (the caller's previous
\* object, if nobody else refers to it, is garbage once the ContextVar is
\* set); the lowest one is taken so that equal heaps have equal slots.
new_state_slot(c) ==
    CHOOSE o \in 1..NCtx :
        /\ \A d \in Ctx \ {c} : ctx[d] # o
        /\ \A o2 \in 1..NCtx : (\A d \in Ctx \ {c} : ctx[d] # o2) => o <= o2

\* start() that builds on the current state instead of _DeploymentState()
start_state_reuse(c, request_id, snapshot_id, parameters, use_in_memory) ==
    [objs[ctx[c]] EXCEPT !.active = TRUE,
                         !.request_id = request_id,
                         !.snapshot_id = snapshot_id,
                         !.pipeline_parameters = parameters,
                         !.outputs = [s \in Steps |-> NoDict],
                         !.use_in_memory = use_in_memory]

\* runtime.py:90-96: the object start() builds.
start_state(c, request_id, snapshot_id, parameters, use_in_memory) ==
    [DeploymentState EXCEPT !.active = TRUE,
                            !.request_id = request_id,
                            !.snapshot_id = snapshot_id,
                            !.pipeline_parameters = parameters,
                            !.outputs = [s \in Steps |-> NoDict],
                            !.use_in_memory = use_in_memory]

start(c, request_id, snapshot_id, parameters, use_in_memory) ==
    LET n == new_state_slot(c)
        state == start_state(c, request_id, snapshot_id, parameters,
                             use_in_memory)
        cx == [ctx EXCEPT ![c] = n]
    IN  /\ nops < MaxOps /\ InOrder(c)
        /\ acted' = Acted(c)
        /\ objs' = [o \in ObjId |->
                      IF o = n THEN state
                      ELSE IF o \in Unreachable(cx) THEN DeploymentState
                      ELSE objs[o]]
        /\ ctx' = cx
        /\ started' = [started EXCEPT ![c] = TRUE]
        /\ held' = Detach(held, Unreachable(cx) \cup {n})
        /\ last' = [op |-> "start", c |-> c, dirty |-> Dirty(get_context(c))]
        /\ nops' = nops + 1

stop(c) ==
    /\ nops < MaxOps /\ InOrder(c)
    /\ acted' = Acted(c)
    /\ objs' = [objs EXCEPT ![ctx[c]] = reset(@)]
    /\ held' = Detach(held, {ctx[c]})
    /\ last' = [op |-> "stop", c |-> c, dirty |-> Dirty(get_context(c))]
    /\ nops' = nops + 1
    /\ UNCHANGED <<ctx, started>>

\* assignment instead of update: the step's earlier outputs are dropped
dict_replace(d, outputs) == outputs

\* dict.update: keys of outputs overwrite, other keys stay.
dict_update(d, outputs) ==
    [n \in Names |-> IF outputs[n] # None THEN outputs[n] ELSE d[n]]

\* record_step_outputs without the "if not state.active: return" guard
record_step_outputs_unguarded(c, step_name, outputs) ==
    /\ nops < MaxOps /\ InOrder(c)
    /\ acted' = Acted(c)
    /\ objs' =
         IF outputs = EmptyOf(Names) THEN objs
         ELSE [objs EXCEPT ![ctx[c]].outputs[step_name] =
                                MkDict([n \in Names |->
                                    IF outputs[n] # None THEN outputs[n]
                                    ELSE @.d[n]])]
    /\ last' = [op |-> "record", c |-> c, dirty |-> FALSE]
    /\ nops' = nops + 1
    /\ UNCHANGED <<ctx, started, held>>

record_step_outputs(c, step_name, outputs) ==
    /\ nops < MaxOps /\ InOrder(c)
    /\ acted' = Acted(c)
    /\ objs' =
         IF ~get_context(c).active THEN objs
         ELSE IF outputs = EmptyOf(Names) THEN objs
         ELSE [objs EXCEPT ![ctx[c]].outputs[step_name] =
                                MkDict(dict_update(@.d, outputs))]
    /\ last' = [op |-> "record", c |-> c, dirty |-> FALSE]
    /\ nops' = nops + 1
    /\ UNCHANGED <<ctx, started, held>>

\* put_in_memory_data without the "if is_active()" guard
put_in_memory_data_unguarded(c, uri, data) ==
    /\ nops < MaxOps /\ InOrder(c)
    /\ acted' = Acted(c)
    /\ objs' = [objs EXCEPT ![ctx[c]].in_memory_data[uri] = data]
    /\ last' = [op |-> "put", c |-> c, dirty |-> FALSE]
    /\ nops' = nops + 1
    /\ UNCHANGED <<ctx, started, held>>

put_in_memory_data(c, uri, data) ==
    /\ nops < MaxOps /\ InOrder(c)
    /\ acted' = Acted(c)
    /\ objs' =
         IF is_active(c)
         THEN [objs EXCEPT ![ctx[c]].in_memory_data[uri] = data]
         ELSE objs
    /\ last' = [op |-> "put", c |-> c, dirty |-> FALSE]
    /\ nops' = nops + 1
    /\ UNCHANGED <<ctx, started, held>>

\* A caller in context c calls get_outputs() and keeps the result.
call_get_outputs(c) ==
    /\ nops < MaxOps /\ InOrder(c)
    /\ acted' = Acted(c)
    /\ held' = [obj |-> ctx[c], c |-> c, outer |-> get_outputs(c)]
    /\ last' = [op |-> "get_outputs", c |-> c, dirty |-> FALSE]
    /\ nops' = nops + 1
    /\ UNCHANGED <<objs, ctx, started>>

\* The caller mutates the value get_outputs() returned: r[step][name] = data
held_set_output(step, name, data) ==
    /\ nops < MaxOps
    /\ acted' = acted
    /\ held.c # 0
    /\ held.outer[step].kind # "none"
    /\ IF held.outer[step].kind = "alias"
       THEN /\ objs' = [objs EXCEPT ![held.obj].outputs[step].d[name] = data]
            /\ held' = held
       ELSE /\ objs' = objs
            /\ held' = [held EXCEPT !.outer[step].d[name] = data]
    /\ last' = [op |-> "mutate_inner", c |-> held.c, dirty |-> FALSE]
    /\ nops' = nops + 1
    /\ UNCHANGED <<ctx, started>>

\* r[step] = {name: data}
held_add_step(step, name, data) ==
    /\ nops < MaxOps
    /\ acted' = acted
    /\ held.c # 0
    /\ held' = [held EXCEPT !.outer[step] =
                  [kind |-> "own", d |-> [EmptyOf(Names) EXCEPT ![name] = data]]]
    /\ last' = [op |-> "mutate_outer", c |-> held.c, dirty |-> FALSE]
    /\ nops' = nops + 1
    /\ UNCHANGED <<objs, ctx, started>>

\* del r[step]
held_remove_step(step) ==
    /\ nops < MaxOps
    /\ acted' = acted
    /\ held.c # 0
    /\ held.outer[step].kind # "none"
    /\ held' = [held EXCEPT !.outer[step] =
                  [kind |-> "none", d |-> EmptyOf(Names)]]
    /\ last' = [op |-> "mutate_outer", c |-> held.c, dirty |-> FALSE]
    /\ nops' = nops + 1
    /\ UNCHANGED <<objs, ctx, started>>

\* contextvars.copy_context() taken in context c and run as context d:
\* d starts with the same ContextVar binding, i.e. the same state object.
\* d is a context that never bound the ContextVar, so it stands for the
\* newly created copy.
copy_context(c, d) ==
    /\ nops < MaxOps /\ InOrder(c)
    /\ c # d /\ d <= Acted(c) + 1
    /\ acted' = Acted(IF d > c THEN d ELSE c)
    /\ ~started[d] /\ ctx[d] = 0
    /\ ctx' = [ctx EXCEPT ![d] = ctx[c]]
    /\ last' = [op |-> "copy_context", c |-> d, dirty |-> FALSE]
    /\ nops' = nops + 1
    /\ UNCHANGED <<objs, started, held>>

(***************************************************************************)
(* Part II models the reconciler of aws_deployer.py: one endpoint, the     *)
(* remote App Runner services, auto-scaling configurations and the         *)
(* endpoint's Secrets Manager secret, and the endpoint metadata the        *)
(* caller persists between calls.  Each reconciler call is one action;     *)
(* the outcome of every remote API call it makes is chosen                 *)
(* nondeterministically among the outcomes the remote API can produce.     *)
(***************************************************************************)
MaxCalls == 3      \* reconciler calls explored per behaviour
MaxFaults == 1     \* remote failures injected per behaviour
MaxEvents == 2     \* log events of a stream, and distinct timestamps
MaxLen == 2        \* characters of the varied part of a raw name
MaxSuffix == 2     \* characters of a random suffix
MaxCpuReq == 81    \* largest requested CPU, in twentieths of a vCPU
MaxMemReq == 241   \* largest requested memory, in twentieths of a GB
MaxScaleReq == 3   \* largest of the small scaling requests
MaxSessions == 3   \* boto3 sessions a deployer object builds

DEFAULT_MIN_SIZE == 1
DEFAULT_MAX_SIZE == 25
DEFAULT_MAX_CONCURRENCY == 100
AWS_APP_RUNNER_MAX_SIZE == 1000
AWS_APP_RUNNER_MAX_CONCURRENCY == 1000

\* Optional[int]: <<>> is None, <<n>> is n.
NoneInt == <<>>
Some(n) == <<n>>
MaxOf(a, b) == IF a >= b THEN a ELSE b
MinOf(a, b) == IF a <= b THEN a ELSE b

\* _get_secret_name: the secret name is prefix + endpoint name, so each
\* settings.secret_name_prefix names one secret; its ARN is the prefix index.
SecretId == 1..2
SvcId == 1..MaxCalls   \* a call creates at most one service ...
AscId == 1..MaxCalls   \* ... and at most one auto-scaling configuration

VARIABLES
    svcs,      \* remote App Runner services by ARN
    ascs,      \* remote auto-scaling configurations by ARN
    sec,       \* the endpoint's remote secrets by ARN (one per secret name)
    meta,      \* endpoint_metadata persisted from the last returned state
    call,      \* what the last reconciler call did
    calls,     \* number of reconciler calls performed
    faults     \* number of remote failures injected

dpvars == <<svcs, ascs, sec, meta, call, calls, faults>>

\* Part III applies the deployer's pure helpers to single inputs.
VARIABLE fn    \* the helper applied last: its name, its arguments, its result

NoFn == [op |-> "init"]

(* ---------------------------- desired state ----------------------------- *)
\* The settings and pipeline configuration Provision reads.  "" stands for
\* None / an empty dict.
BaseSpec ==
    [image |-> "img1",
     is_publicly_accessible |-> TRUE,
     ingress_vpc_configuration |-> "",
     encryption_kms_key |-> "",
     cpu_count |-> "",
     health_check_path |-> "/health",
     traffic_allocation |-> "LATEST:100",
     min_replicas |-> NoneInt,
     max_replicas |-> Some(10),
     max_concurrency |-> NoneInt,
     environment |-> "",
     secrets |-> "",
     use_secrets_manager |-> TRUE,
     secret_name_prefix |-> 1]

Specs ==
    {BaseSpec,
     [BaseSpec EXCEPT !.image = "img2"],
     [BaseSpec EXCEPT !.environment = "E=1"],
     [BaseSpec EXCEPT !.cpu_count = "2", !.health_check_path = "/ready",
                      !.traffic_allocation = "LATEST:50,rev1:50"],
     [BaseSpec EXCEPT !.max_replicas = Some(0)],
     [BaseSpec EXCEPT !.is_publicly_accessible = FALSE],
     [BaseSpec EXCEPT !.ingress_vpc_configuration = "vpc1"],
     [BaseSpec EXCEPT !.encryption_kms_key = "key1"],
     [BaseSpec EXCEPT !.secrets = "S=1"],
     [BaseSpec EXCEPT !.secrets = "S=1", !.secret_name_prefix = 2],
     [BaseSpec EXCEPT !.secrets = "S=1", !.use_secrets_manager = FALSE]}

(* ----------------------------- remote state ----------------------------- *)
NoService ==
    [status |-> "NONE", op |-> "",
     image |-> "", cpu |-> "", environment |-> "", plaintext_secrets |-> "",
     health_check_path |-> "", traffic |-> "",
     is_publicly_accessible |-> FALSE,
     vpc_ingress_connection |-> "",
     vpc_connector_arn |-> "",
     kms_key |-> "",
     auto_scaling_configuration_arn |-> 0,
     secret_refs |-> FALSE, secret_arn |-> 0]

NoAsc == [state |-> "none", min_size |-> 0, max_size |-> 0, max_concurrency |-> 0]
NoSecret == [exists |-> FALSE, value |-> ""]
NoMeta == [service_arn |-> 0, auto_scaling_configuration_arn |-> 0,
           secret_arn |-> 0, region |-> "",
           environment_variables |-> <<"", "">>,
           runtime_environment_secrets |-> FALSE]
\* What a Provision call did about the sensitive variables: whether writing
\* the secret failed, and what the create / update request it submitted (if
\* any) carried.
NoRequest == [secret_failed |-> FALSE, submitted |-> FALSE,
              plaintext_secrets |-> "", secret_refs |-> FALSE]
NoCall == [op |-> "init", spec |-> BaseSpec, path |-> "", raised |-> "",
           status |-> "", existing |-> FALSE, replay |-> FALSE,
           differs |-> FALSE, create_submitted |-> FALSE,
           old_status_at_create |-> "", polled |-> "", api |-> <<>>,
           faults |-> 0, request |-> NoRequest]

\* A service the remote API still describes (DELETED ones included, until
\* the remote API forgets them: GONE).
Described(w, arn) == arn # 0 /\ w.svcs[arn].status \notin {"NONE", "GONE"}
\* A service delete_service accepts: it exists and no operation is running.
Deletable(svc) == svc.status \in {"RUNNING", "CREATE_FAILED", "DELETE_FAILED"}
\* A service that has not been observed deleted.
Live(svc) == svc.status \notin {"NONE", "DELETED", "GONE"}

\* The remote API calls a reconciler call has issued so far, in order.
Issue(w, names) == [w EXCEPT !.api = @ \o names]

(* --------------------------- pure functions ----------------------------- *)
\* _convert_scaling_settings_to_aws_format
convert_scaling_settings_to_aws_format(rs) ==
    [min_size |->
        IF rs.min_replicas # NoneInt THEN MaxOf(1, rs.min_replicas[1])
        ELSE DEFAULT_MIN_SIZE,
     max_size |->
        IF rs.max_replicas # NoneInt
        THEN IF rs.max_replicas[1] = 0 THEN AWS_APP_RUNNER_MAX_SIZE
             ELSE MinOf(rs.max_replicas[1], AWS_APP_RUNNER_MAX_SIZE)
        ELSE DEFAULT_MAX_SIZE,
     max_concurrency |->
        IF rs.max_concurrency # NoneInt
        THEN MinOf(rs.max_concurrency[1], AWS_APP_RUNNER_MAX_CONCURRENCY)
        ELSE DEFAULT_MAX_CONCURRENCY]

\* _get_service_operational_state: remote status -> PipelineEndpointStatus
status_of(service_status) ==
    IF service_status \in {"CREATE_FAILED", "DELETE_FAILED"} THEN "ERROR"
    ELSE IF service_status = "OPERATION_IN_PROGRESS" THEN "PENDING"
    ELSE IF service_status = "RUNNING" THEN "RUNNING"
    ELSE IF service_status = "DELETED" THEN "ABSENT"
    ELSE IF service_status = "PAUSED" THEN "PENDING"
    ELSE "UNKNOWN"

\* _requires_service_replacement
requires_service_replacement(existing_service, settings) ==
    LET current_public_access == existing_service.is_publicly_accessible
        has_current_vpc == existing_service.vpc_connector_arn # ""
        will_have_vpc == settings.ingress_vpc_configuration # ""
        current_kms_key == existing_service.kms_key
    IN  \/ current_public_access # settings.is_publicly_accessible
        \/ has_current_vpc # will_have_vpc
        \/ current_kms_key # settings.encryption_kms_key

\* The three properties the platform fixes per service identity, compared
\* between what the remote service was given and what the spec asks for.
SpecDiffers(service, settings) ==
    \/ service.is_publicly_accessible # settings.is_publicly_accessible
    \/ (service.vpc_ingress_connection # "")
          # (settings.ingress_vpc_configuration # "")
    \/ service.kms_key # settings.encryption_kms_key

(* ------------------------- remote API outcomes -------------------------- *)
\* What the remote world looks like to one reconciler call: the remote
\* resources, the API calls issued so far in order, and the number of
\* remote failures injected so far.
World == [svcs |-> svcs, ascs |-> ascs, sec |-> sec, api |-> <<>>,
          faults |-> faults]

\* A remote call that fails although the resource state would let it
\* succeed (throttling, permissions, network) or a poll that does not
\* observe the target: the world after it, if the budget allows one more.
Failing(w) ==
    IF w.faults < MaxFaults THEN {[w EXCEPT !.faults = @ + 1]} ELSE {}

\* _get_app_runner_service that re-raises every ClientError, not-found
\* included.
get_app_runner_service_reraising(w, m) ==
    IF m.service_arn = 0 THEN {[w |-> w, out |-> "none"]}
    ELSE LET w1 == Issue(w, <<"describe_service">>)
         IN  {[w |-> w1,
               out |-> IF Described(w, m.service_arn) THEN "found"
                       ELSE "client_error"]}
             \cup {[w |-> x, out |-> "client_error"] : x \in Failing(w1)}

\* _get_app_runner_service: None without a recorded ARN or when describe
\* reports not-found; any other ClientError is re-raised as it is.
get_app_runner_service(w, m) ==
    IF m.service_arn = 0 THEN {[w |-> w, out |-> "none"]}
    ELSE LET w1 == Issue(w, <<"describe_service">>)
         IN  {[w |-> w1,
               out |-> IF Described(w, m.service_arn) THEN "found" ELSE "none"]}
             \cup {[w |-> x, out |-> "client_error"] : x \in Failing(w1)}

\* A remote call fails with an error response (botocore ClientError) or
\* without any response (a BotoCoreError: connection refused, timeout).
\* The handlers that catch ClientError alone let the second kind through.

\* _get_secret_arn: the recorded ARN if describe_secret confirms it; None
\* on not-found and on every other ClientError.
get_secret_arn(w, m) ==
    IF m.secret_arn = 0 THEN {[w |-> w, arn |-> 0, raised |-> ""]}
    ELSE LET w1 == Issue(w, <<"describe_secret">>)
         IN  {[w |-> w1,
               arn |-> IF w.sec[m.secret_arn].exists THEN m.secret_arn ELSE 0,
               raised |-> ""]}
             \cup {[w |-> x, arn |-> 0, raised |-> r] :
                      x \in Failing(w1), r \in {"", "BotoCoreError"}}

\* _delete_secret: not-found and every other ClientError are swallowed.
delete_secret(w, secret_arn) ==
    LET w1 == Issue(w, <<"delete_secret">>)
    IN  {[w |-> [w1 EXCEPT !.sec[secret_arn] = NoSecret], raised |-> ""]}
        \cup {[w |-> x, raised |-> r] :
                 x \in Failing(w1), r \in {"", "BotoCoreError"}}

\* _cleanup_endpoint_secrets
cleanup_endpoint_secrets(w, m) ==
    UNION {
      IF g.raised # "" THEN {[w |-> g.w, raised |-> g.raised]}
      ELSE IF g.arn # 0 THEN delete_secret(g.w, g.arn)
      ELSE {[w |-> g.w, raised |-> ""]}
      : g \in get_secret_arn(w, m)}

\* _cleanup_endpoint_auto_scaling_config: failures are logged, not raised.
cleanup_endpoint_auto_scaling_config(w, m) ==
    LET arn == m.auto_scaling_configuration_arn
        w1 == Issue(w, <<"delete_auto_scaling_configuration">>)
    IN  IF arn = 0 THEN {w}
        ELSE IF w.ascs[arn].state = "active"
        THEN {[w1 EXCEPT !.ascs[arn].state = "deleted"]} \cup Failing(w1)
        ELSE {w1}

\* The cleanup of do_deprovision_pipeline_endpoint (aws_deployer.py
\* 1870-1884): secrets, then the auto-scaling configuration; any exception
\* is re-raised as DeployerError, otherwise None is returned.
cleanup_after_absent(w, m) ==
    UNION {
      IF c.raised # "" THEN {[w |-> c.w, out |-> "DeployerError"]}
      ELSE {[w |-> w4, out |-> "none"] :
              w4 \in cleanup_endpoint_auto_scaling_config(c.w, m)}
      : c \in cleanup_endpoint_secrets(w, m)}

\* _poll_pipeline_endpoint(endpoint, ABSENT, timeout) after a delete was
\* accepted: the service is observed deleted, failed, or still deleting
\* when the timeout elapses.
PollOutcomes == {"absent", "error", "timeout"}

poll_pipeline_endpoint(w, arn, outcome) ==
    {[x EXCEPT !.svcs[arn].status =
                  IF outcome = "absent" THEN "DELETED"
                  ELSE IF outcome = "error" THEN "DELETE_FAILED"
                  ELSE "OPERATION_IN_PROGRESS",
               !.svcs[arn].op = IF outcome = "timeout" THEN "delete" ELSE "",
               !.api = Append(@, "describe_service")]
       : x \in IF outcome = "absent" THEN {w} ELSE Failing(w)}

\* do_deprovision_pipeline_endpoint that cleans up whatever the poll
\* observed.
do_deprovision_cleanup_always(w, m) ==
    UNION {
      IF g.out = "none" THEN {[w |-> g.w, out |-> "PipelineEndpointNotFoundError"]}
      ELSE IF g.out = "client_error" THEN {[w |-> g.w, out |-> "ClientError"]}
      ELSE LET arn == m.service_arn
               w1 == Issue(g.w, <<"delete_service">>)
           IN  IF ~Deletable(g.w.svcs[arn])
               THEN {[w |-> w1, out |-> "PipelineEndpointDeprovisionError"]}
               ELSE {[w |-> x, out |-> o] :
                        x \in Failing(w1),
                        o \in {"PipelineEndpointNotFoundError",
                               "PipelineEndpointDeprovisionError"}}
                    \cup UNION {
                      UNION {
                        {[w |-> c.w,
                          out |-> IF c.out = "none" /\ p # "absent"
                                  THEN "state" ELSE c.out] :
                           c \in cleanup_after_absent(w2, m)}
                        : w2 \in poll_pipeline_endpoint(w1, arn, p)}
                      : p \in PollOutcomes}
      : g \in get_app_runner_service(w, m)}

\* do_deprovision_pipeline_endpoint.  out is the exception raised, "state"
\* when the last observed (not ABSENT) state is returned, "none" when the
\* service was observed ABSENT and the cleanup ran.
do_deprovision_pipeline_endpoint(w, m) ==
    UNION {
      IF g.out = "none" THEN {[w |-> g.w, out |-> "PipelineEndpointNotFoundError"]}
      ELSE IF g.out = "client_error" THEN {[w |-> g.w, out |-> "ClientError"]}
      ELSE LET arn == m.service_arn
               w1 == Issue(g.w, <<"delete_service">>)
           IN  IF ~Deletable(g.w.svcs[arn])
               THEN {[w |-> w1, out |-> "PipelineEndpointDeprovisionError"]}
               ELSE {[w |-> x, out |-> o] :
                        x \in Failing(w1),
                        o \in {"PipelineEndpointNotFoundError",
                               "PipelineEndpointDeprovisionError"}}
                    \cup UNION {
                      UNION {
                        IF p # "absent" THEN {[w |-> w2, out |-> "state"]}
                        ELSE cleanup_after_absent(w2, m)
                        : w2 \in poll_pipeline_endpoint(w1, arn, p)}
                      : p \in PollOutcomes}
      : g \in get_app_runner_service(w, m)}

\* The try branch that also copies the sensitive values into the regular
\* variables.
inject_secret_refs_and_values(x, s, secret_arn) ==
    [w |-> x, env |-> s.environment, plaintext_secrets |-> s.secrets,
     secret_refs |-> TRUE, active_secret_arn |-> secret_arn, raised |-> ""]

\* _prepare_environment_variables, the try branch once the secret is
\* written (aws_deployer.py 975-991): every sensitive key becomes a
\* reference "secret-arn:key::", the regular variables stay as they are.
inject_secret_refs(x, s, secret_arn) ==
    [w |-> x, env |-> s.environment, plaintext_secrets |-> "",
     secret_refs |-> TRUE, active_secret_arn |-> secret_arn, raised |-> ""]

\* The except branch that forgets env_vars.update(secrets).
fallback_without_secrets(x, s) ==
    [w |-> x, env |-> s.environment, plaintext_secrets |-> "",
     secret_refs |-> FALSE, active_secret_arn |-> 0, raised |-> ""]

\* _prepare_environment_variables, the except branch (aws_deployer.py
\* 993-999) and the use_secrets_manager = False branch (1008-1014):
\* env_vars.update(secrets).
fallback_to_env_vars(x, s) ==
    [w |-> x, env |-> s.environment, plaintext_secrets |-> s.secrets,
     secret_refs |-> FALSE, active_secret_arn |-> 0, raised |-> ""]

\* _create_or_update_secret inside _prepare_environment_variables: update,
\* on not-found create; a failure falls back to plaintext variables.  Then
\* a recorded secret other than the active one is deleted.
prepare_environment_variables(w, m, s) ==
    IF s.secrets = ""
    THEN {[w |-> w, env |-> s.environment, plaintext_secrets |-> "",
           secret_refs |-> FALSE, active_secret_arn |-> 0, raised |-> ""]}
    ELSE IF ~s.use_secrets_manager
    THEN {fallback_to_env_vars(w, s)}
    ELSE LET secret_arn == s.secret_name_prefix
             wr == IF w.sec[secret_arn].exists THEN <<"update_secret">>
                   ELSE <<"update_secret", "create_secret">>
             ok == [Issue(w, wr) EXCEPT
                       !.sec[secret_arn] =
                           [exists |-> TRUE, value |-> s.secrets]]
             old(x, active) ==
                 UNION {
                   IF g.raised # "" THEN {[w |-> g.w, raised |-> g.raised]}
                   ELSE IF g.arn # 0 /\ g.arn # active
                   THEN delete_secret(g.w, g.arn)
                   ELSE {[w |-> g.w, raised |-> ""]}
                   : g \in get_secret_arn(x, m)}
         IN  {[inject_secret_refs(x.w, s, secret_arn)
                  EXCEPT !.raised = x.raised] : x \in old(ok, secret_arn)}
             \cup
             UNION {
               {[fallback_to_env_vars(x.w, s) EXCEPT !.raised = x.raised]
                  : x \in old(ko, 0)}
               : ko \in Failing(Issue(w, <<"update_secret">>))}

\* The ARN create_auto_scaling_configuration hands out next.
NewAsc(w) ==
    CHOOSE a \in AscId :
        w.ascs[a].state = "none" /\ \A b \in AscId : b < a => w.ascs[b].state # "none"

\* The comparison that never finds the recorded configuration up to date.
config_never_up_to_date(existing_config, sc) == FALSE

\* "Check if update is needed" (aws_deployer.py 841-850)
config_up_to_date(existing_config, sc) ==
    /\ existing_config.max_concurrency = sc.max_concurrency
    /\ existing_config.max_size = sc.max_size
    /\ existing_config.min_size = sc.min_size

\* _create_or_update_auto_scaling_config that deletes the recorded
\* configuration when it creates a new one.
create_or_update_deleting_stale(w, m, sc) ==
    LET existing_arn == m.auto_scaling_configuration_arn
        w0 == IF existing_arn = 0 THEN w
              ELSE Issue(w, <<"describe_auto_scaling_configuration">>)
        same == /\ existing_arn # 0
                /\ config_up_to_date(w.ascs[existing_arn], sc)
        wd == IF existing_arn = 0 THEN w0
              ELSE [Issue(w0, <<"delete_auto_scaling_configuration">>)
                       EXCEPT !.ascs[existing_arn].state = "deleted"]
        create ==
            LET w1 == Issue(wd, <<"create_auto_scaling_configuration">>)
                a == NewAsc(wd)
            IN  {[w |-> [w1 EXCEPT !.ascs[a] =
                            [state |-> "active", min_size |-> sc.min_size,
                             max_size |-> sc.max_size,
                             max_concurrency |-> sc.max_concurrency]],
                  arn |-> a, out |-> "ok"]}
                \cup {[w |-> x, arn |-> 0, out |-> "DeployerError"]
                        : x \in Failing(w1)}
        found == IF same THEN {[w |-> w0, arn |-> existing_arn, out |-> "ok"]}
                 ELSE create
        error == {[w |-> x, arn |-> 0, out |-> "DeployerError"]
                    : x \in Failing(w0)}
    IN  IF existing_arn = 0 THEN create
        ELSE IF w.ascs[existing_arn].state = "active"
        THEN found \cup error
        ELSE found \cup create \cup error

\* _create_or_update_auto_scaling_config.  A configuration that was deleted
\* may still be described or be reported as an invalid request; the remote
\* API decides.
create_or_update_auto_scaling_config(w, m, sc) ==
    LET existing_arn == m.auto_scaling_configuration_arn
        w0 == IF existing_arn = 0 THEN w
              ELSE Issue(w, <<"describe_auto_scaling_configuration">>)
        same == /\ existing_arn # 0
                /\ config_up_to_date(w.ascs[existing_arn], sc)
        create ==
            LET w1 == Issue(w0, <<"create_auto_scaling_configuration">>)
                a == NewAsc(w0)
            IN  {[w |-> [w1 EXCEPT !.ascs[a] =
                            [state |-> "active", min_size |-> sc.min_size,
                             max_size |-> sc.max_size,
                             max_concurrency |-> sc.max_concurrency]],
                  arn |-> a, out |-> "ok"]}
                \cup {[w |-> x, arn |-> 0, out |-> "DeployerError"]
                        : x \in Failing(w1)}
        found == IF same THEN {[w |-> w0, arn |-> existing_arn, out |-> "ok"]}
                 ELSE create
        error == {[w |-> x, arn |-> 0, out |-> "DeployerError"]
                    : x \in Failing(w0)}
    IN  IF existing_arn = 0 THEN create
        ELSE IF w.ascs[existing_arn].state = "active"
        THEN found \cup error
        ELSE found \cup create \cup error

\* The ARN create_service hands out next.
NewSvc(w) ==
    CHOOSE a \in SvcId :
        w.svcs[a].status = "NONE" /\ \A b \in SvcId : b < a => w.svcs[b].status # "NONE"

\* The service description built from the create / update request.
Requested(base, s, e, asc_arn) ==
    [base EXCEPT !.status = "OPERATION_IN_PROGRESS",
                 !.image = s.image,
                 !.cpu = s.cpu_count,
                 !.environment = e.env,
                 !.plaintext_secrets = e.plaintext_secrets,
                 !.health_check_path = s.health_check_path,
                 !.traffic = s.traffic_allocation,
                 !.is_publicly_accessible = s.is_publicly_accessible,
                 !.vpc_ingress_connection = s.ingress_vpc_configuration,
                 !.kms_key = s.encryption_kms_key,
                 !.auto_scaling_configuration_arn = asc_arn,
                 !.secret_refs = e.secret_refs,
                 !.secret_arn = e.active_secret_arn]

\* AppRunnerPipelineEndpointMetadata.from_app_runner_service, dumped with
\* exclude_none: environment_variables is RuntimeEnvironmentVariables as
\* the service carries it (regular variables, and the sensitive ones when
\* they were submitted as plaintext); source_configuration keeps the
\* RuntimeEnvironmentSecrets references.
from_app_runner_service(service, arn, region, secret_arn) ==
    [service_arn |-> arn,
     auto_scaling_configuration_arn |-> service.auto_scaling_configuration_arn,
     secret_arn |-> secret_arn, region |-> region,
     environment_variables |-> <<service.environment, service.plaintext_secrets>>,
     runtime_environment_secrets |-> service.secret_refs]

\* update_service + tag_resource, or create_service (aws_deployer.py
\* 1545-1645).  existing is the ARN to update, 0 to create.  The remote API
\* rejects an update of a service that is not RUNNING.
submit_service(w, existing, s, e, asc_arn) ==
    IF existing # 0
    THEN LET w1 == Issue(w, <<"update_service">>)
             w2 == [Issue(w1, <<"tag_resource">>) EXCEPT !.svcs[existing] =
                       [Requested(@, s, e, asc_arn) EXCEPT !.op = "update"]]
         IN  IF w.svcs[existing].status # "RUNNING"
             THEN {[w |-> w1, arn |-> 0,
                    out |-> "PipelineEndpointDeploymentError"]}
             ELSE {[w |-> w2, arn |-> existing, out |-> "ok"]}
                  \cup {[w |-> x, arn |-> 0,
                         out |-> "PipelineEndpointDeploymentError"]
                          : x \in Failing(w1) \cup Failing(w2)}
    ELSE LET w1 == Issue(w, <<"create_service">>)
             a == NewSvc(w)
         IN  {[w |-> [w1 EXCEPT !.svcs[a] =
                         [Requested(NoService, s, e, asc_arn)
                             EXCEPT !.op = "create"]],
               arn |-> a, out |-> "ok"]}
             \cup {[w |-> x, arn |-> 0,
                    out |-> "PipelineEndpointDeploymentError"]
                     : x \in Failing(w1)}

(* --------------------------- reconciler calls --------------------------- *)
\* Between calls only the resources the endpoint metadata references are
\* ever described again.  Of every other service the state keeps that its
\* ARN is taken (UNTRACKED: the reconciler never learns what becomes of
\* it); of every other auto-scaling configuration, whether it exists.
KeepServices(sv, m) ==
    [a \in SvcId |->
        IF a = m.service_arn THEN sv[a]
        ELSE [NoService EXCEPT
                 !.status = IF sv[a].status = "NONE" THEN "NONE"
                            ELSE "UNTRACKED"]]

KeepAscs(as, sv, m) ==
    [a \in AscId |->
        IF \/ a = m.auto_scaling_configuration_arn
           \/ /\ m.service_arn # 0
              /\ a = sv[m.service_arn].auto_scaling_configuration_arn
        THEN as[a]
        ELSE [NoAsc EXCEPT !.state = as[a].state]]

\* Steps 4-7 of do_provision_pipeline_endpoint (aws_deployer.py 1378-1645):
\* environment and secret, auto-scaling configuration, then update_service
\* on `existing` or create_service when existing = 0.
provision_submit(w, m, s, existing, path) ==
    LET sc == convert_scaling_settings_to_aws_format(s)
        secret_failed(e) ==
            s.secrets # "" /\ s.use_secrets_manager /\ e.active_secret_arn = 0
        res(x, out, arn, asc_arn, e, old_status) ==
            [w |-> x, out |-> out, path |-> path,
             meta |-> IF arn = 0 THEN NoMeta
                      ELSE from_app_runner_service(x.svcs[arn], arn, "region",
                                                   e.active_secret_arn),
             create_submitted |-> (existing = 0 /\ asc_arn # 0),
             old_status_at_create |-> old_status,
             request |->
                 IF asc_arn = 0
                 THEN [NoRequest EXCEPT !.secret_failed = secret_failed(e)]
                 ELSE [secret_failed |-> secret_failed(e),
                       submitted |-> TRUE,
                       plaintext_secrets |-> e.plaintext_secrets,
                       secret_refs |-> e.secret_refs]]
        old_status(x) == IF m.service_arn = 0 THEN "NONE"
                         ELSE x.svcs[m.service_arn].status
    IN  UNION {
          IF e.raised # "" THEN {res(e.w, e.raised, 0, 0, e, "")}
          ELSE UNION {
            IF a.out # "ok"
            THEN {res(a.w, a.out, 0, 0, e, "")}
            ELSE {res(r.w, IF r.out = "ok" THEN "" ELSE r.out, r.arn, a.arn,
                      e, old_status(a.w))
                    : r \in submit_service(a.w, existing, s, e, a.arn)}
            : a \in create_or_update_auto_scaling_config(e.w, m, sc)}
          : e \in prepare_environment_variables(w, m, s)}

\* do_provision_pipeline_endpoint: every outcome of one call.
do_provision_pipeline_endpoint(w, m, s) ==
    UNION {
      IF g.out = "client_error"
      THEN {[w |-> g.w, out |-> "ClientError", path |-> "",
             meta |-> NoMeta, create_submitted |-> FALSE,
             old_status_at_create |-> "", request |-> NoRequest]}
      ELSE IF g.out = "none"
      THEN provision_submit(g.w, m, s, 0, "create")
      ELSE IF requires_service_replacement(g.w.svcs[m.service_arn], s)
      THEN UNION {
             IF d.out = "ClientError"
             THEN {[w |-> d.w, out |-> "ClientError", path |-> "replace",
                    meta |-> NoMeta, create_submitted |-> FALSE,
                    old_status_at_create |-> "", request |-> NoRequest]}
             ELSE provision_submit(d.w, m, s, 0, "replace")
             : d \in do_deprovision_pipeline_endpoint(g.w, m)}
      ELSE provision_submit(g.w, m, s, m.service_arn, "update")
      : g \in get_app_runner_service(w, m)}

\* One Provision call with desired state s.  The caller persists the
\* metadata of the returned state; a raised error leaves it as it was.
Provision(s) ==
    /\ calls < MaxCalls
    /\ \E r \in do_provision_pipeline_endpoint(World, meta, s) :
         /\ meta' = IF r.out = "" THEN r.meta ELSE meta
         /\ svcs' = KeepServices(r.w.svcs, meta')
         /\ ascs' = KeepAscs(r.w.ascs, r.w.svcs, meta')
         /\ sec' = r.w.sec
         /\ faults' = r.w.faults
         /\ call' = [op |-> "provision", spec |-> s, path |-> r.path,
                     raised |-> r.out,
                     status |-> IF r.out = ""
                                THEN status_of(r.w.svcs[r.meta.service_arn].status)
                                ELSE "",
                     existing |-> /\ Described(World, meta.service_arn)
                                  /\ Live(svcs[meta.service_arn]),
                     replay |-> /\ call.op = "provision"
                                /\ call.raised = ""
                                /\ call.spec = s
                                /\ Described(World, meta.service_arn)
                                /\ Live(svcs[meta.service_arn]),
                     differs |-> /\ Described(World, meta.service_arn)
                                 /\ Live(svcs[meta.service_arn])
                                 /\ SpecDiffers(svcs[meta.service_arn], s),
                     create_submitted |-> r.create_submitted,
                     old_status_at_create |-> r.old_status_at_create,
                     polled |-> "",
                     api |-> r.w.api,
                     faults |-> r.w.faults - faults,
                     request |-> r.request]
    /\ calls' = calls + 1
    /\ UNCHANGED <<rtvars, fn>>

\* One Deprovision call.  A None return means the endpoint is gone and its
\* record is dropped; a returned state or a raised error keeps the record.
\* polled is the status the poll after delete_service observed.
Deprovision ==
    /\ calls < MaxCalls
    /\ \E r \in do_deprovision_pipeline_endpoint(World, meta) :
         /\ meta' = IF r.out = "none" THEN NoMeta ELSE meta
         /\ svcs' = KeepServices(r.w.svcs, meta')
         /\ ascs' = KeepAscs(r.w.ascs, r.w.svcs, meta')
         /\ sec' = r.w.sec
         /\ faults' = r.w.faults
         /\ call' = [NoCall EXCEPT
                       !.op = "deprovision",
                       !.path = "delete",
                       !.raised = IF r.out \in {"none", "state"} THEN "" ELSE r.out,
                       !.status = IF r.out = "state"
                                  THEN status_of(r.w.svcs[meta.service_arn].status)
                                  ELSE IF r.out = "none" THEN "ABSENT" ELSE "",
                       !.existing = Described(World, meta.service_arn),
                       !.polled = IF Len(r.w.api) >= 3
                                  THEN status_of(r.w.svcs[meta.service_arn].status)
                                  ELSE "",
                       !.api = r.w.api,
                       !.faults = r.w.faults - faults]
    /\ calls' = calls + 1
    /\ UNCHANGED <<rtvars, fn>>

\* do_get_pipeline_endpoint that cleans the secret up where it should only
\* look its reference up.
do_get_pipeline_endpoint_cleaning(w, m) ==
    UNION {
      IF g.out = "client_error"
      THEN {[w |-> g.w, out |-> "ClientError", meta |-> NoMeta]}
      ELSE IF g.out = "none"
      THEN {[w |-> g.w, out |-> "PipelineEndpointNotFoundError",
             meta |-> NoMeta]}
      ELSE IF m.region = ""
      THEN {[w |-> g.w, out |-> "RuntimeError", meta |-> NoMeta]}
      ELSE {IF a.raised # ""
            THEN [w |-> a.w, out |-> a.raised, meta |-> NoMeta]
            ELSE [w |-> a.w, out |-> "",
                  meta |-> from_app_runner_service(
                               a.w.svcs[m.service_arn], m.service_arn,
                               m.region, 0)]
              : a \in cleanup_endpoint_secrets(g.w, m)}
      : g \in get_app_runner_service(w, m)}

\* do_get_pipeline_endpoint: describe the service, verify the recorded
\* secret, and build the operational state from what was described.
do_get_pipeline_endpoint(w, m) ==
    UNION {
      IF g.out = "client_error"
      THEN {[w |-> g.w, out |-> "ClientError", meta |-> NoMeta]}
      ELSE IF g.out = "none"
      THEN {[w |-> g.w, out |-> "PipelineEndpointNotFoundError",
             meta |-> NoMeta]}
      ELSE IF m.region = ""
      THEN {[w |-> g.w, out |-> "RuntimeError", meta |-> NoMeta]}
      ELSE {IF a.raised # ""
            THEN [w |-> a.w, out |-> a.raised, meta |-> NoMeta]
            ELSE [w |-> a.w, out |-> "",
                  meta |-> from_app_runner_service(
                               a.w.svcs[m.service_arn], m.service_arn,
                               m.region, a.arn)]
              : a \in get_secret_arn(g.w, m)}
      : g \in get_app_runner_service(w, m)}

\* One Inspect call.  The caller persists the metadata of the returned
\* state; a raised error leaves the record as it was.
Inspect ==
    /\ calls < MaxCalls
    /\ \E r \in do_get_pipeline_endpoint(World, meta) :
         /\ meta' = IF r.out = "" THEN r.meta ELSE meta
         /\ svcs' = KeepServices(r.w.svcs, meta')
         /\ ascs' = KeepAscs(r.w.ascs, r.w.svcs, meta')
         /\ sec' = r.w.sec
         /\ faults' = r.w.faults
         /\ call' = [NoCall EXCEPT
                       !.op = "inspect",
                       !.raised = r.out,
                       !.status = IF r.out = ""
                                  THEN status_of(r.w.svcs[meta.service_arn].status)
                                  ELSE "",
                       !.existing = Described(World, meta.service_arn),
                       !.api = r.w.api,
                       !.faults = r.w.faults - faults]
    /\ calls' = calls + 1
    /\ UNCHANGED <<rtvars, fn>>

\* The remote platform finishes the operation in progress on a service.
RemoteProgress(a) ==
    /\ svcs[a].status = "OPERATION_IN_PROGRESS"
    /\ \E st \in IF svcs[a].op = "create" THEN {"RUNNING", "CREATE_FAILED"}
                 ELSE IF svcs[a].op = "update" THEN {"RUNNING"}
                 ELSE {"DELETED", "DELETE_FAILED"} :
         svcs' = [svcs EXCEPT ![a].status = st, ![a].op = ""]
    /\ UNCHANGED <<ascs, sec, meta, call, calls, faults>>
    /\ UNCHANGED <<rtvars, fn>>

\* The remote platform stops describing a deleted service.
RemoteForget(a) ==
    /\ svcs[a].status = "DELETED"
    /\ svcs' = [svcs EXCEPT ![a].status = "GONE"]
    /\ UNCHANGED <<ascs, sec, meta, call, calls, faults>>
    /\ UNCHANGED <<rtvars, fn>>

(* ================= Part III: the deployer's pure helpers ================ *)
\* Strings that the code inspects character by character are sequences of
\* one-character strings.
LowerLetters == <<"a", "b", "c", "d", "e", "f", "g", "h", "i", "j", "k", "l", "m", "n", "o", "p", "q", "r", "s", "t", "u", "v", "w", "x", "y", "z">>
UpperLetters == <<"A", "B", "C", "D", "E", "F", "G", "H", "I", "J", "K", "L", "M", "N", "O", "P", "Q", "R", "S", "T", "U", "V", "W", "X", "Y", "Z">>

\* str.upper() / str.lower(), one character
upper_char(c) ==
    IF \E i \in 1..26 : LowerLetters[i] = c
    THEN UpperLetters[CHOOSE i \in 1..26 : LowerLetters[i] = c]
    ELSE c

lower_char(c) ==
    IF \E i \in 1..26 : UpperLetters[i] = c
    THEN LowerLetters[CHOOSE i \in 1..26 : UpperLetters[i] = c]
    ELSE c

\* str.upper() that leaves the string as it is.
str_upper_identity(str) == str

\* str.upper()
str_upper(str) == [i \in 1..Len(str) |-> upper_char(str[i])]

str_lower(str) == [i \in 1..Len(str) |-> lower_char(str[i])]
str_capitalize(str) ==
    [i \in 1..Len(str) |-> IF i = 1 THEN upper_char(str[i]) ELSE lower_char(str[i])]

\* The status words of the App Runner API.
S_CREATE_FAILED == <<"C", "R", "E", "A", "T", "E", "_", "F", "A", "I", "L", "E", "D">>
S_DELETE_FAILED == <<"D", "E", "L", "E", "T", "E", "_", "F", "A", "I", "L", "E", "D">>
S_OPERATION_IN_PROGRESS == <<"O", "P", "E", "R", "A", "T", "I", "O", "N", "_", "I", "N", "_", "P", "R", "O", "G", "R", "E", "S", "S">>
S_RUNNING == <<"R", "U", "N", "N", "I", "N", "G">>
S_DELETED == <<"D", "E", "L", "E", "T", "E", "D">>
S_PAUSED == <<"P", "A", "U", "S", "E", "D">>

\* The literal a status string is compared with in
\* _get_service_operational_state, if it equals one.
StatusLiteral(str) ==
    IF str = S_CREATE_FAILED THEN "CREATE_FAILED"
    ELSE IF str = S_DELETE_FAILED THEN "DELETE_FAILED"
    ELSE IF str = S_OPERATION_IN_PROGRESS THEN "OPERATION_IN_PROGRESS"
    ELSE IF str = S_RUNNING THEN "RUNNING"
    ELSE IF str = S_DELETED THEN "DELETED"
    ELSE IF str = S_PAUSED THEN "PAUSED"
    ELSE "OTHER"

\* dict.get on a describe_service response: the key may be missing.
Missing == <<"<missing>">>
dict_get(d, key, default) == IF d[key] = Missing THEN default ELSE d[key]

\* The service URL: a scheme token (or none) followed by the host.
startswith_https(url) == Len(url) > 0 /\ url[1] = "https://"

\* _get_service_operational_state (aws_deployer.py 1063-1102): status from
\* service.get("Status", "").upper(); url only in the RUNNING branch,
\* prefixed with https:// when it is non-empty and lacks it.  url <<>> is
\* None or the empty string.
get_service_operational_state(service) ==
    LET service_status == str_upper(dict_get(service, "Status", <<>>))
        status == status_of(StatusLiteral(service_status))
        service_url == dict_get(service, "ServiceUrl", <<>>)
    IN  [status |-> status,
         url |-> IF status = "RUNNING"
                 THEN IF service_url # <<>> /\ ~startswith_https(service_url)
                      THEN <<"https://">> \o service_url
                      ELSE service_url
                 ELSE <<>>]

\* Status strings a describe_service response may carry: every status word
\* in upper case, lower case and capitalised, and strings that are none.
StatusStrings ==
    LET Words == {S_CREATE_FAILED, S_DELETE_FAILED, S_OPERATION_IN_PROGRESS, S_RUNNING, S_DELETED, S_PAUSED}
    IN  Words \cup {str_lower(w) : w \in Words}
              \cup {str_capitalize(w) : w \in Words}
              \cup {<<>>, <<"B", "O", "G", "U", "S">>, <<"R", "U", "N", "N", "I", "N", "G", " ">>, <<"C", "R", "E", "A", "T", "I", "N", "G">>, Missing}

ServiceUrls ==
    {Missing, <<>>, <<"h">>, <<"https://", "h">>, <<"http://", "h">>}

ServiceDescriptions ==
    {[Status |-> st, ServiceUrl |-> u] : st \in StatusStrings, u \in ServiceUrls}

GetServiceOperationalState(service) ==
    /\ fn = NoFn
    /\ fn' = [op |-> "get_service_operational_state", service |-> service,
              out |-> get_service_operational_state(service)]
    /\ UNCHANGED <<rtvars, dpvars>>

(* --------------------------- resource names ----------------------------- *)
\* Names are sequences of one-character strings.
Digits == {"0", "1", "2", "3", "4", "5", "6", "7", "8", "9"}
Letters == {LowerLetters[i] : i \in 1..26} \cup {UpperLetters[i] : i \in 1..26}

\* str.isalnum() of one character of a name after re.sub (ASCII only)
isalnum(c) == c \in Letters \cup Digits

\* re.sub(r"[^...]", repl, name): every character outside the class is replaced
re_sub_outside(name, class, repl) ==
    [i \in 1..Len(name) |-> IF name[i] \in class THEN name[i] ELSE repl]

\* re.sub(r"c+", "c", name): runs of c collapse to one c
re_sub_runs(name, c) ==
    LET with_previous == [i \in 1..Len(name) |->
                             <<name[i], IF i > 1 THEN name[i - 1] ELSE "">>]
        kept == SelectSeq(with_previous, LAMBDA p : ~(p[1] = c /\ p[2] = c))
    IN  [i \in 1..Len(kept) |-> kept[i][1]]

\* name.rstrip(c), name.lstrip(c), name.strip(c)
rstrip(name, c) ==
    LET RECURSIVE last_kept(_)
        last_kept(i) == IF i = 0 \/ name[i] # c THEN i ELSE last_kept(i - 1)
    IN  SubSeq(name, 1, last_kept(Len(name)))

lstrip(name, c) ==
    LET RECURSIVE first_kept(_)
        first_kept(i) == IF i > Len(name) \/ name[i] # c THEN i ELSE first_kept(i + 1)
    IN  SubSeq(name, first_kept(1), Len(name))

strip(name, c) == lstrip(rstrip(name, c), c)

\* name[:n]
slice_to(name, n) ==
    IF n >= 0 THEN SubSeq(name, 1, IF n < Len(name) THEN n ELSE Len(name))
    ELSE SubSeq(name, 1, IF Len(name) + n > 0 THEN Len(name) + n ELSE 0)

\* re.match(r"^[...]+$", suffix): $ also matches before one trailing newline
re_match_class(suffix, class) ==
    LET all_in(n) == n >= 1 /\ \A i \in 1..n : suffix[i] \in class
    IN  \/ all_in(Len(suffix))
        \/ Len(suffix) >= 2 /\ suffix[Len(suffix)] = "\n" /\ all_in(Len(suffix) - 1)

Named(name) == [raised |-> "", name |-> name]
NameError(e) == [raised |-> e, name |-> <<>>]

sanitize_app_runner_service_name(name, random_suffix) ==
    LET s1 == re_sub_outside(name, Letters \cup Digits \cup {"-"}, "-")
        s2 == re_sub_runs(s1, "-")
        s3 == strip(s2, "-")
        s4 == IF ~isalnum(s3[Len(s3)]) THEN rstrip(s3, "-") ELSE s3
        max_base_length == 40 - Len(random_suffix) - 1
        s5 == IF Len(s4) > max_base_length
              THEN rstrip(slice_to(s4, max_base_length), "-") ELSE s4
        final_name == s5 \o <<"-">> \o random_suffix
    IN  IF ~re_match_class(random_suffix, Letters \cup Digits \cup {"-"})
        THEN NameError("RuntimeError")
        ELSE IF s3 = <<>> \/ ~isalnum(s3[1]) THEN NameError("ValueError")
        ELSE IF s4 = <<>> THEN NameError("ValueError")
        ELSE IF s5 = <<>> \/ ~isalnum(s5[1]) \/ ~isalnum(s5[Len(s5)])
        THEN NameError("ValueError")
        ELSE IF Len(final_name) < 4 \/ Len(final_name) > 40
        THEN NameError("ValueError")
        ELSE Named(final_name)

sanitize_auto_scaling_config_name(name) ==
    LET s1 == re_sub_outside(name, Letters \cup Digits \cup {"-"}, "-")
        s2 == re_sub_runs(s1, "-")
        s3 == rstrip(s2, "-")
        s4 == IF Len(s3) > 32 THEN rstrip(slice_to(s3, 32), "-") ELSE s3
        s5 == IF Len(s4) < 4
              THEN rstrip(slice_to(<<"z", "e", "n", "m", "l", "-">> \o s4, 32), "-")
              ELSE s4
    IN  IF s2 = <<>> \/ ~isalnum(s2[1]) THEN NameError("ValueError")
        ELSE IF s3 = <<>> THEN NameError("ValueError")
        ELSE Named(s5)

\* In the class [^a-zA-Z0-9_.-/] the part .-/ is the range from "." to "/",
\* which holds these two characters and not the hyphen.
sanitize_secret_name(name, random_suffix) ==
    LET s1 == re_sub_outside(name, Letters \cup Digits \cup {"_", ".", "/"}, "_")
        s2 == re_sub_runs(s1, "/")
        s3 == strip(s2, "/")
        max_base_length == 512 - Len(random_suffix) - 1
        s4 == IF Len(s3) > max_base_length
              THEN rstrip(slice_to(s3, max_base_length), "/") ELSE s3
    IN  IF ~re_match_class(random_suffix, Letters \cup Digits \cup {"_", "-"})
        THEN NameError("RuntimeError")
        ELSE IF s3 = <<>> THEN NameError("ValueError")
        ELSE IF s4 = <<>> THEN NameError("ValueError")
        ELSE Named(s4 \o <<"_">> \o random_suffix)

\* str(endpoint_id)[:8]
endpoint_id_short(endpoint_id) == slice_to(endpoint_id, 8)

get_service_name(endpoint_name, endpoint_id, prefix) ==
    sanitize_app_runner_service_name(prefix \o endpoint_name,
                                     endpoint_id_short(endpoint_id))

get_secret_name(endpoint_name, endpoint_id, prefix) ==
    sanitize_secret_name(prefix \o endpoint_name, endpoint_id_short(endpoint_id))

get_auto_scaling_config_name(endpoint_name, endpoint_id) ==
    sanitize_auto_scaling_config_name(
        <<"z", "e", "n", "m", "l", "-">> \o endpoint_name \o <<"-">>
            \o endpoint_id_short(endpoint_id))

\* Inputs of the name helpers: every short string over a few characters
\* of each kind, alone or after a run of letters that brings the name to
\* the length limit of its resource kind; and the documented example.
Strs(chars, n) == UNION {[1..k -> chars] : k \in 0..n}
NameChars == {"a", "1", "-", "!"}
SecretNameChars == {"a", "-", "_", ".", "/", "!"}

RawNames(chars, limit) ==
    {[i \in 1..k |-> "a"] \o t :
        k \in {0} \cup ((limit - MaxLen - MaxSuffix - 2)..limit),
        t \in Strs(chars, MaxLen)}

Suffixes == Strs({"a", "1", "-", "!", "\n"}, MaxSuffix)
ExampleName == <<"M", "y", " ", "S", "e", "r", "v", "i", "c", "e", "!", "!">>
ExampleSuffix == <<"a", "1", "b", "2", "c", "3", "d", "4">>

\* str(endpoint.id): the first 8 characters are hexadecimal digits
EndpointId(x, y) == <<x, "0", "0", "0", "0", "0", "0", y, "-", "4">>
EndpointIds == {EndpointId(x, y) : x \in {"0", "f"}, y \in {"0", "f"}}

EndpointNames(kind) ==
    IF kind = "service" THEN RawNames(NameChars, 40)
    ELSE IF kind = "auto_scaling_config" THEN RawNames(NameChars, 32)
    ELSE RawNames(SecretNameChars, 512)

\* the separator between the body and the suffix of a generated name
Separator(kind) == IF kind = "secret" THEN "_" ELSE "-"

get_resource_name(kind, endpoint_name, endpoint_id, prefix) ==
    IF kind = "service" THEN get_service_name(endpoint_name, endpoint_id, prefix)
    ELSE IF kind = "auto_scaling_config"
    THEN get_auto_scaling_config_name(endpoint_name, endpoint_id)
    ELSE get_secret_name(endpoint_name, endpoint_id, prefix)

SanitizeServiceName(name, random_suffix) ==
    /\ fn = NoFn
    /\ fn' = [op |-> "sanitize_app_runner_service_name", name |-> name,
              random_suffix |-> random_suffix,
              out |-> sanitize_app_runner_service_name(name, random_suffix)]
    /\ UNCHANGED <<rtvars, dpvars>>

\* The names of one kind generated for two endpoints: a and b, whose name
\* is that of a, or that of a with one more character.
GetResourceNames(kind, endpoint_name, more, id_a, id_b, prefix) ==
    /\ fn = NoFn
    /\ fn' = [op |-> "get_resource_names", kind |-> kind,
              name_a |-> endpoint_name, name_b |-> endpoint_name \o more,
              id_a |-> id_a, id_b |-> id_b, prefix |-> prefix,
              out_a |-> get_resource_name(kind, endpoint_name, id_a, prefix),
              out_b |-> get_resource_name(kind, endpoint_name \o more, id_b,
                                          prefix)]
    /\ UNCHANGED <<rtvars, dpvars>>

(* ---------------------------- tier selection --------------------------- *)
\* CPU and memory amounts are counted in twentieths (0.25 vCPU is 5, 0.5 GB
\* is 10, a request of 0.3 is 6).  Both columns of valid_combinations grow
\* down the list, and floating-point subtraction, multiplication and
\* addition keep the order of their operands, so comparing the exact scores
\* decides as the code's comparison does.
valid_combinations ==
    << [cpu_val |-> 5,  cpu_str |-> "0.25 vCPU", mem_val |-> 10,  mem_str |-> "0.5 GB"],
       [cpu_val |-> 5,  cpu_str |-> "0.25 vCPU", mem_val |-> 20,  mem_str |-> "1 GB"],
       [cpu_val |-> 10, cpu_str |-> "0.5 vCPU",  mem_val |-> 20,  mem_str |-> "1 GB"],
       [cpu_val |-> 20, cpu_str |-> "1 vCPU",    mem_val |-> 40,  mem_str |-> "2 GB"],
       [cpu_val |-> 20, cpu_str |-> "1 vCPU",    mem_val |-> 60,  mem_str |-> "3 GB"],
       [cpu_val |-> 20, cpu_str |-> "1 vCPU",    mem_val |-> 80,  mem_str |-> "4 GB"],
       [cpu_val |-> 40, cpu_str |-> "2 vCPU",    mem_val |-> 80,  mem_str |-> "4 GB"],
       [cpu_val |-> 40, cpu_str |-> "2 vCPU",    mem_val |-> 120, mem_str |-> "6 GB"],
       [cpu_val |-> 80, cpu_str |-> "4 vCPU",    mem_val |-> 160, mem_str |-> "8 GB"],
       [cpu_val |-> 80, cpu_str |-> "4 vCPU",    mem_val |-> 200, mem_str |-> "10 GB"],
       [cpu_val |-> 80, cpu_str |-> "4 vCPU",    mem_val |-> 240, mem_str |-> "12 GB"] >>

DEFAULT_CPU == "0.25 vCPU"
DEFAULT_MEMORY == "0.5 GB"

\* cpu_ok and mem_ok, with the CPU requirement ignored
meets_memory_only(t, requested_cpu, requested_memory_gb) ==
    requested_memory_gb = NoneInt \/ t.mem_val >= requested_memory_gb[1]

\* cpu_ok and mem_ok
meets_requirements(t, requested_cpu, requested_memory_gb) ==
    /\ requested_cpu = NoneInt \/ t.cpu_val >= requested_cpu[1]
    /\ requested_memory_gb = NoneInt \/ t.mem_val >= requested_memory_gb[1]

\* score = cpu_waste * 10 - mem_waste: memory overage rewarded
waste_score_minus_memory(t, requested_cpu, requested_memory_gb) ==
    LET cpu_waste == IF requested_cpu = NoneInt THEN 0
                     ELSE t.cpu_val - requested_cpu[1]
        mem_waste == IF requested_memory_gb = NoneInt THEN 0
                     ELSE t.mem_val - requested_memory_gb[1]
    IN  cpu_waste * 10 - mem_waste

\* score = cpu_waste * 10 + mem_waste
waste_score(t, requested_cpu, requested_memory_gb) ==
    LET cpu_waste == IF requested_cpu = NoneInt THEN 0
                     ELSE t.cpu_val - requested_cpu[1]
        mem_waste == IF requested_memory_gb = NoneInt THEN 0
                     ELSE t.mem_val - requested_memory_gb[1]
    IN  cpu_waste * 10 + mem_waste

\* score < best_score, with <= in place of <
improves_or_ties(score, best_score) ==
    best_score = NoneInt \/ score <= best_score[1]

\* score < best_score; best_score starts as infinity
improves(score, best_score) ==
    best_score = NoneInt \/ score < best_score[1]

select_aws_cpu_memory_combination(requested_cpu, requested_memory_gb) ==
    LET RECURSIVE loop(_, _, _)
        loop(i, best_combination, best_score) ==
            IF i > Len(valid_combinations)
            THEN IF best_combination = <<>> THEN <<"4 vCPU", "12 GB">>
                 ELSE best_combination
            ELSE LET t == valid_combinations[i]
                     score == waste_score(t, requested_cpu, requested_memory_gb)
                 IN  IF /\ meets_requirements(t, requested_cpu, requested_memory_gb)
                        /\ improves(score, best_score)
                     THEN loop(i + 1, <<t.cpu_str, t.mem_str>>, Some(score))
                     ELSE loop(i + 1, best_combination, best_score)
    IN  IF requested_cpu = NoneInt /\ requested_memory_gb = NoneInt
        THEN <<DEFAULT_CPU, DEFAULT_MEMORY>>
        ELSE loop(1, <<>>, NoneInt)

\* Requests: absent, or an amount from below zero to above the largest tier.
CpuRequests == {NoneInt} \cup {Some(n) : n \in (0 - 1)..MaxCpuReq}
MemoryRequests == {NoneInt} \cup {Some(n) : n \in (0 - 1)..MaxMemReq}

SelectTier(requested_cpu, requested_memory_gb) ==
    /\ fn = NoFn
    /\ fn' = [op |-> "select_aws_cpu_memory_combination",
              requested_cpu |-> requested_cpu,
              requested_memory_gb |-> requested_memory_gb,
              out |-> select_aws_cpu_memory_combination(requested_cpu,
                                                        requested_memory_gb)]
    /\ UNCHANGED <<rtvars, dpvars>>

(* ------------------------- scaling normalisation ------------------------ *)
\* Requested replica counts and concurrency: absent, a small integer from
\* below zero on, or a value next to a default or a platform maximum.
ScalingRequests ==
    {NoneInt}
    \cup {Some(n) : n \in (0 - 1)..MaxScaleReq}
    \cup {Some(d + k) : d \in {DEFAULT_MAX_SIZE, DEFAULT_MAX_CONCURRENCY,
                               AWS_APP_RUNNER_MAX_SIZE},
                        k \in (0 - 1)..1}

ConvertScalingSettings(min_replicas, max_replicas, max_concurrency) ==
    /\ fn = NoFn
    /\ fn' = [op |-> "convert_scaling_settings_to_aws_format",
              min_replicas |-> min_replicas, max_replicas |-> max_replicas,
              max_concurrency |-> max_concurrency,
              out |-> convert_scaling_settings_to_aws_format(
                          [min_replicas |-> min_replicas,
                           max_replicas |-> max_replicas,
                           max_concurrency |-> max_concurrency])]
    /\ UNCHANGED <<rtvars, dpvars>>

(* ------------------------- sessions and clients ------------------------ *)
\* The deployer object: its configuration (the linked connector, the region
\* of the session the connector returns, config.region; "" is None), the
\* cached _boto_session (0 is None, n is the n-th session built), _region
\* and _app_runner_client, and whether the connector has expired.
DeployerConfigs ==
    {[connector |-> k, session_region |-> sr, config_region |-> cr] :
        k \in {"none", "session", "other"},
        sr \in {"", "eu-west-1"}, cr \in {"", "us-west-2"}}

NoClient == [session |-> 0, region |-> ""]

NewDeployer(cfg) ==
    /\ fn = NoFn
    /\ fn' = [op |-> "deployer", cfg |-> cfg, boto_session |-> 0,
              region |-> "", app_runner_client |-> NoClient, expired |-> FALSE,
              sessions |-> 0,
              last |-> [call |-> "", raised |-> "", session |-> 0,
                        region |-> "", client |-> NoClient]]
    /\ UNCHANGED <<rtvars, dpvars>>

\* _get_boto_session_and_region on deployer d: the deployer after the call,
\* the error raised and the pair returned.  With no connector the local
\* variable region is never assigned: the assignment self._region = region
\* raises UnboundLocalError after self._boto_session has been set.
get_boto_session_and_region(d) ==
    IF d.boto_session # 0 /\ d.region # "" /\ ~d.expired
    THEN [d |-> d, raised |-> "", session |-> d.boto_session, region |-> d.region]
    ELSE IF d.cfg.connector = "other"
    THEN [d |-> [d EXCEPT !.expired = FALSE], raised |-> "RuntimeError",
          session |-> 0, region |-> ""]
    ELSE IF d.cfg.connector = "session"
    THEN LET boto_session == d.sessions + 1
             region == IF d.cfg.session_region # "" THEN d.cfg.session_region
                       ELSE IF d.cfg.config_region # "" THEN d.cfg.config_region
                       ELSE "us-east-1"
         IN  [d |-> [d EXCEPT !.boto_session = boto_session, !.region = region,
                              !.sessions = boto_session, !.expired = FALSE],
              raised |-> "", session |-> boto_session, region |-> region]
    ELSE LET boto_session == d.sessions + 1
         IN  [d |-> [d EXCEPT !.boto_session = boto_session,
                              !.sessions = boto_session],
              raised |-> "UnboundLocalError", session |-> 0, region |-> ""]

\* The app_runner_client property
app_runner_client(d) ==
    IF d.app_runner_client = NoClient \/ d.expired
    THEN LET r == get_boto_session_and_region(d)
         IN  IF r.raised # ""
             THEN [d |-> r.d, raised |-> r.raised, client |-> NoClient]
             ELSE LET client == [session |-> r.session, region |-> r.region]
                  IN  [d |-> [r.d EXCEPT !.app_runner_client = client],
                       raised |-> "", client |-> client]
    ELSE [d |-> d, raised |-> "", client |-> d.app_runner_client]

GetBotoSessionAndRegion ==
    /\ fn.op = "deployer"
    /\ fn.sessions < MaxSessions
    /\ LET r == get_boto_session_and_region(fn)
       IN  fn' = [r.d EXCEPT !.last = [call |-> "_get_boto_session_and_region",
                                       raised |-> r.raised,
                                       session |-> r.session,
                                       region |-> r.region,
                                       client |-> NoClient]]
    /\ UNCHANGED <<rtvars, dpvars>>

AppRunnerClient ==
    /\ fn.op = "deployer"
    /\ fn.sessions < MaxSessions
    /\ LET r == app_runner_client(fn)
       IN  fn' = [r.d EXCEPT !.last = [call |-> "app_runner_client",
                                       raised |-> r.raised, session |-> 0,
                                       region |-> "", client |-> r.client]]
    /\ UNCHANGED <<rtvars, dpvars>>

\* The credentials of the linked connector expire.
ConnectorExpires ==
    /\ fn.op = "deployer"
    /\ fn.cfg.connector # "none"
    /\ ~fn.expired
    /\ fn' = [fn EXCEPT !.expired = TRUE]
    /\ UNCHANGED <<rtvars, dpvars>>

(* ------------------------------ FetchLogs ------------------------------- *)
\* do_get_pipeline_endpoint_logs contains `yield`: it is a generator
\* function.  Calling it runs none of its body and returns a generator;
\* the body runs when the caller asks for the first line.

\* Log events are timestamps in whole seconds; the formatted lines sort as
\* their timestamps do.
\* A stream holds its events in the order they were written; a log group
\* holds no stream, one, or two.
Events ==
    {e \in UNION {[1..n -> 1..MaxEvents] : n \in 0..MaxEvents} :
        \A i \in 1..(Len(e) - 1) : e[i] <= e[i + 1]}
LogStreams ==
    {<<>>} \cup {<<e>> : e \in Events} \cup {<<e1, e2>> : e1 \in Events, e2 \in Events}

\* What the remote side holds when logs are fetched: the service
\* (described, not found, or never recorded), the service_name of the endpoint metadata, the
\* log group (absent, or its streams), and the remote call that fails, if
\* any, with the kind of failure.
LogRemotes ==
    {[service |-> sv, service_name |-> sn, log_group |-> lg, streams |-> st,
      fail_at |-> fa, fail_kind |-> fk] :
        sv \in {"found", "none", "unrecorded"}, sn \in BOOLEAN,
        lg \in {"absent", "present"}, st \in LogStreams,
        fa \in {"", "describe_service", "describe_log_streams", "get_log_events"},
        fk \in {"ClientError", "BotoCoreError"}}

Tails == {NoneInt} \cup {Some(n) : n \in 0..MaxEvents}

Flatten(streams) ==
    LET RECURSIVE cat(_)
        cat(i) == IF i > Len(streams) THEN <<>> ELSE streams[i] \o cat(i + 1)
    IN  cat(1)

\* log_lines[-tail:]
last_lines(log_lines, tail) ==
    IF tail >= Len(log_lines) THEN log_lines
    ELSE SubSeq(log_lines, Len(log_lines) - tail + 1, Len(log_lines))

\* The inner try of do_get_pipeline_endpoint_logs (aws_deployer.py
\* 1738-1787): describe_log_streams, get_log_events per stream, sort, tail.
\* raised is the exception that leaves the inner try.
collect_log_lines(r, tail) ==
    LET a1 == <<"describe_log_streams">>
        a2 == a1 \o [i \in 1..Len(r.streams) |-> "get_log_events"]
        sorted == SortSeq(Flatten(r.streams), LAMBDA x, y : x < y)
        failed(api) == [api |-> api, lines |-> <<>>,
                        raised |-> IF r.fail_kind = "ClientError"
                                   THEN "ClientError" ELSE "BotoCoreError"]
    IN  IF r.fail_at = "describe_log_streams" THEN failed(a1)
        ELSE IF r.log_group = "absent"
        THEN [api |-> a1, lines |-> <<>>, raised |-> "PipelineLogsNotFoundError"]
        ELSE IF r.fail_at = "get_log_events" /\ Len(r.streams) > 0
        THEN failed(a1 \o <<"get_log_events">>)
        ELSE [api |-> a2, raised |-> "",
              lines |-> IF tail # NoneInt /\ tail[1] > 0
                        THEN last_lines(sorted, tail[1]) ELSE sorted]

\* The handlers of the outer try (aws_deployer.py 1789-1796): ClientError
\* and BotoCoreError become PipelineLogsNotFoundError, every other
\* exception becomes DeployerError.
outer_except(raised) ==
    IF raised = "" THEN ""
    ELSE IF raised \in {"ClientError", "BotoCoreError"}
    THEN "PipelineLogsNotFoundError"
    ELSE "DeployerError"

\* The body of do_get_pipeline_endpoint_logs up to its first yield: the
\* exception it raises, the remote calls it made, the lines it will yield.
logs_body(follow, tail, r) ==
    LET d == <<"describe_service">>
        c == collect_log_lines(r, tail)
    IN  IF follow
        THEN [raised |-> "NotImplementedError", api |-> <<>>, lines |-> <<>>]
        ELSE IF r.service = "unrecorded"
        THEN [raised |-> "PipelineEndpointNotFoundError", api |-> <<>>,
              lines |-> <<>>]
        ELSE IF r.fail_at = "describe_service"
        THEN [raised |-> r.fail_kind, api |-> d, lines |-> <<>>]
        ELSE IF r.service = "none"
        THEN [raised |-> "PipelineEndpointNotFoundError", api |-> d,
              lines |-> <<>>]
        ELSE IF ~r.service_name
        THEN [raised |-> outer_except("RuntimeError"), api |-> d, lines |-> <<>>]
        ELSE [raised |-> outer_except(c.raised), api |-> d \o c.api,
              lines |-> c.lines]

\* The call: a generator is created and returned.
FetchLogs(follow, tail, r) ==
    /\ fn = NoFn
    /\ fn' = [op |-> "do_get_pipeline_endpoint_logs", follow |-> follow,
              tail |-> tail, remote |-> r, pc |-> "created", raised |-> "",
              api |-> <<>>, lines |-> <<>>, yielded |-> <<>>]
    /\ UNCHANGED <<rtvars, dpvars>>

\* next() on the generator: the first one runs the body; each one yields
\* the next line, or ends, or raises what the body raised.
NextLogLine ==
    /\ fn.op = "do_get_pipeline_endpoint_logs"
    /\ fn.pc \in {"created", "suspended"}
    /\ LET b == IF fn.pc = "created"
                THEN logs_body(fn.follow, fn.tail, fn.remote)
                ELSE [raised |-> "", api |-> fn.api, lines |-> fn.lines]
       IN  fn' = IF b.raised # ""
                 THEN [fn EXCEPT !.pc = "raised", !.raised = b.raised,
                                 !.api = b.api]
                 ELSE IF b.lines = <<>>
                 THEN [fn EXCEPT !.pc = "done", !.api = b.api]
                 ELSE [fn EXCEPT !.pc = "suspended", !.api = b.api,
                                 !.lines = Tail(b.lines),
                                 !.yielded = Append(@, Head(b.lines))]
    /\ UNCHANGED <<rtvars, dpvars>>

(* ---------------------------- specifications ---------------------------- *)
vars == <<objs, ctx, started, held, last, acted, nops,
          svcs, ascs, sec, meta, call, calls, faults, fn>>

Init ==
    /\ objs = [o \in ObjId |-> DeploymentState]
    /\ ctx = [c \in Ctx |-> 0]
    /\ started = [c \in Ctx |-> FALSE]
    /\ held = NoHeld
    /\ last = [op |-> "init", c |-> 0, dirty |-> FALSE]
    /\ acted = 0
    /\ nops = 0
    /\ svcs = [a \in SvcId |-> NoService]
    /\ ascs = [a \in AscId |-> NoAsc]
    /\ sec = [i \in SecretId |-> NoSecret]
    /\ meta = NoMeta
    /\ call = NoCall
    /\ calls = 0
    /\ faults = 0
    /\ fn = NoFn

\* The request runtime: contexts of the serving process.
Next ==
    \/ \E c \in Ctx, r \in RequestIds, sid \in SnapshotIds :
         \E i \in StartInputs(c) :
            start(c, r, sid, i.parameters, i.use_in_memory) /\ UNCHANGED <<dpvars, fn>>
    \/ \E c \in Ctx : stop(c) /\ UNCHANGED <<dpvars, fn>>
    \/ \E c \in Ctx : \E i \in RecordInputs(Tag(c)) :
         record_step_outputs(c, i.step_name, i.outputs) /\ UNCHANGED <<dpvars, fn>>
    \/ \E c \in Ctx, u \in Uris :
         put_in_memory_data(c, u, Value(Tag(c), 1)) /\ UNCHANGED <<dpvars, fn>>
    \/ \E c \in Ctx : call_get_outputs(c) /\ UNCHANGED <<dpvars, fn>>
    \/ \E s \in Steps : held_set_output(s, "a", Value(0, 2)) /\ UNCHANGED <<dpvars, fn>>
    \/ \E s \in Steps : held_add_step(s, "a", Value(0, 2)) /\ UNCHANGED <<dpvars, fn>>
    \/ \E s \in Steps : held_remove_step(s) /\ UNCHANGED <<dpvars, fn>>
    \/ \E c \in Ctx, d \in Ctx : copy_context(c, d) /\ UNCHANGED <<dpvars, fn>>

Spec == Init /\ [][Next]_vars

\* The reconciler: calls on one endpoint, one at a time, interleaved with
\* the remote platform's own progress.
NextProv ==
    \/ \E s \in Specs : Provision(s)
    \/ Deprovision
    \/ Inspect
    \/ \E a \in SvcId : RemoteProgress(a)
    \/ \E a \in SvcId : RemoteForget(a)

SpecProv == Init /\ [][NextProv]_vars

\* The deployer's pure helpers, each applied once to one input.
NextFn ==
    \/ /\ fn = NoFn
       /\ \E service \in ServiceDescriptions : GetServiceOperationalState(service)
    \/ /\ fn = NoFn
       /\ \E name \in RawNames(NameChars, 40) \cup {ExampleName},
             random_suffix \in Suffixes \cup {ExampleSuffix} :
            SanitizeServiceName(name, random_suffix)
    \/ /\ fn = NoFn
       /\ \E kind \in {"service", "auto_scaling_config", "secret"},
             more \in {<<>>, <<"1">>},
             id_a \in {EndpointId("0", "0")}, id_b \in EndpointIds,
             prefix \in {<<>>, <<"z", "e", "n", "m", "l", "-">>} :
            \E endpoint_name \in EndpointNames(kind) :
                GetResourceNames(kind, endpoint_name, more, id_a, id_b, prefix)
    \/ /\ fn = NoFn
       /\ \E requested_cpu \in CpuRequests, requested_memory_gb \in MemoryRequests :
            SelectTier(requested_cpu, requested_memory_gb)
    \/ /\ fn = NoFn
       /\ \E min_replicas \in ScalingRequests, max_replicas \in ScalingRequests,
             max_concurrency \in ScalingRequests :
            ConvertScalingSettings(min_replicas, max_replicas, max_concurrency)

SpecFn == Init /\ [][NextFn]_vars

\* FetchLogs: one call and the iteration of the generator it returns.
NextLogs ==
    \/ /\ fn = NoFn
       /\ \E follow \in BOOLEAN, tail \in Tails, r \in LogRemotes :
            FetchLogs(follow, tail, r)
    \/ NextLogLine

SpecLogs == Init /\ [][NextLogs]_vars

\* One deployer object: lazy construction and refresh of its session,
\* region and App Runner client.
NextClients ==
    \/ \E cfg \in DeployerConfigs : NewDeployer(cfg)
    \/ GetBotoSessionAndRegion
    \/ AppRunnerClient
    \/ ConnectorExpires

SpecClients == Init /\ [][NextClients]_vars

(* ======================= Part I: runtime claims ========================= *)
Cleared(st) ==
    /\ ~st.active
    /\ ~st.use_in_memory
    /\ st.pipeline_parameters = EmptyOf(ParamNames)
    /\ st.outputs = [s \in Steps |-> NoDict]
    /\ st.in_memory_data = EmptyOf(Uris)

\* Every value the read functions return in context c.
Visible(c) ==
    {OutputsContent(c)[s].d[n] : s \in Steps, n \in Names}
    \cup {get_parameter_override(c, n) : n \in ParamNames}
    \cup {get_in_memory_data(c, u) : u \in Uris}
    \cup {get_context(c).in_memory_data[u] :
            u \in {x \in Uris : has_in_memory_data(c, x)}}

\* C1: of two contexts that have each called start(), neither reads (through
\* get_outputs, get_parameter_override, get_in_memory_data or
\* has_in_memory_data) a value the other wrote through its start()
\* parameters, record_step_outputs or put_in_memory_data.
C1_Isolation ==
    \A c1 \in Ctx, c2 \in Ctx :
        (c1 # c2 /\ started[c1] /\ started[c2])
            => \A x \in Visible(c2) : x.w # c1

C1_Witness ==
    /\ started[1] /\ started[2] /\ is_active(1) /\ is_active(2)
    /\ \E s \in Steps, n \in Names : OutputsContent(1)[s].d[n].w = 1
    /\ \E s \in Steps, n \in Names : OutputsContent(2)[s].d[n].w = 2

\* C2: right after stop() the calling context is inactive, get_outputs() is
\* empty and the overrides, the in-memory cache and the in-memory flag are
\* cleared, whatever the request had recorded.
C2_StopClears ==
    last.op = "stop" =>
        /\ ~is_active(last.c)
        /\ Cleared(get_context(last.c))
        /\ \A n \in ParamNames : get_parameter_override(last.c, n) = None
        /\ \A u \in Uris : /\ get_in_memory_data(last.c, u) = None
                           /\ ~has_in_memory_data(last.c, u)
        /\ ~should_use_in_memory_mode(last.c)

C2_Witness ==
    /\ last.op = "stop" /\ last.dirty /\ started[last.c]
    /\ ~is_active(last.c)

\* C3: mutating the value returned by get_outputs() (adding or removing a
\* step entry, changing an output inside a step's map) never changes what a
\* later get_outputs() returns in any context.
C3_SnapshotCopy ==
    [][last'.op \in {"mutate_inner", "mutate_outer"}
          => \A c \in Ctx : OutputsContent(c)' = OutputsContent(c)]_vars

\* C4: while no context is active in the calling scope, record_step_outputs
\* and put_in_memory_data change nothing, the reads return None / False, and
\* a start() that follows finds neither outputs nor in-memory data.
C4_InactiveReads ==
    \A c \in Ctx : ~is_active(c) =>
        /\ \A n \in ParamNames : get_parameter_override(c, n) = None
        /\ \A u \in Uris : /\ get_in_memory_data(c, u) = None
                           /\ ~has_in_memory_data(c, u)

C4_InactiveNoOp ==
    [][/\ C4_InactiveReads /\ C4_InactiveReads'
       /\ \A c \in Ctx :
            /\ (last'.c = c /\ last'.op \in {"record", "put"} /\ ~is_active(c))
                  => (objs' = objs /\ ctx' = ctx)
            /\ (last'.c = c /\ last'.op = "start" /\ ~is_active(c))
                  => /\ get_context(c)'.outputs = [s \in Steps |-> NoDict]
                     /\ get_context(c)'.in_memory_data = EmptyOf(Uris)]_vars

C4_Witness ==
    /\ last.op \in {"record", "put"}
    /\ started[last.c]
    /\ ~is_active(last.c)

\* C5: start() installs a fresh state: right after it the outputs are
\* empty, no in-memory data is present and the overrides are exactly the
\* parameters passed, even when the previous request in that context left
\* outputs or data behind and never called stop().
C5_StartFresh ==
    [][\A c \in Ctx :
         (last'.op = "start" /\ last'.c = c) =>
            \A r \in RequestIds, sid \in SnapshotIds :
               \A i \in StartInputs(c) :
                  start(c, r, sid, i.parameters, i.use_in_memory) =>
                     /\ is_active(c)'
                     /\ OutputsContent(c)' = [s \in Steps |-> NoDict]
                     /\ \A u \in Uris : /\ ~has_in_memory_data(c, u)'
                                        /\ get_in_memory_data(c, u)' = None
                     /\ get_context(c)'.pipeline_parameters = i.parameters
                     /\ should_use_in_memory_mode(c)' = i.use_in_memory]_vars

C5_Witness ==
    /\ last.op = "start" /\ last.dirty
    /\ is_active(last.c)

\* C6: while active, record_step_outputs(step, outputs) merges: afterwards
\* every name supplied holds the supplied value and every output recorded
\* earlier under another name or another step is still there.
C6_RecordMerges ==
    [][\A c \in Ctx :
         (last'.op = "record" /\ last'.c = c /\ is_active(c)) =>
            \A i \in RecordInputs(Tag(c)) :
               record_step_outputs(c, i.step_name, i.outputs) =>
                  \A s \in Steps :
                     /\ OutputsContent(c)'[s].has =
                          (OutputsContent(c)[s].has
                              \/ (s = i.step_name
                                     /\ i.outputs # EmptyOf(Names)))
                     /\ \A n \in Names :
                          OutputsContent(c)'[s].d[n] =
                              IF s = i.step_name /\ i.outputs[n] # None
                              THEN i.outputs[n]
                              ELSE OutputsContent(c)[s].d[n]]_vars

C6_Witness ==
    /\ last.op = "record" /\ is_active(last.c)
    /\ OutputsContent(last.c)["s1"].d["a"].v = 2
    /\ OutputsContent(last.c)["s1"].d["b"].v = 1
    /\ OutputsContent(last.c)["s2"].has

\* C7: while active, get_parameter_override(name) is the value passed for
\* name to the most recent start() of the context when name is a top-level
\* key and None otherwise; nested parameter values are not searched.
C7_ParameterOverride ==
    [][\A c \in Ctx :
         /\ (last'.op = "start" /\ last'.c = c) =>
              \A r \in RequestIds, sid \in SnapshotIds :
                 \A i \in StartInputs(c) :
                    start(c, r, sid, i.parameters, i.use_in_memory) =>
                       \A n \in ParamNames :
                          get_parameter_override(c, n)' = i.parameters[n]
         /\ (is_active(c) /\ is_active(c)'
                /\ ~(last'.op = "start" /\ last'.c = c)) =>
              \A n \in ParamNames :
                 get_parameter_override(c, n)' = get_parameter_override(c, n)]_vars

C7_Witness ==
    \E c \in Ctx :
        /\ is_active(c) /\ last.op # "start"
        /\ get_context(c).pipeline_parameters["p"].k = "q"
        /\ get_parameter_override(c, "q") = None
        /\ get_parameter_override(c, "p") = Nested(c, 1, "q")

\* Context d was copied from the active request context c and has not bound
\* the ContextVar itself.
DerivedFrom(d, c) ==
    /\ c # d
    /\ started[c] /\ ~started[d]
    /\ ctx[c] # 0 /\ ctx[d] = ctx[c]
    /\ is_active(c)

\* C34: start() and stop() called in a context copied from an active request
\* context leave the originating context's state as it was: still active,
\* with its outputs, parameter overrides and in-memory data.
C34_DerivedContextIsolated ==
    [][\A c \in Ctx, d \in Ctx :
         (DerivedFrom(d, c) /\ last'.c = d /\ last'.op \in {"start", "stop"})
            => /\ is_active(c)'
               /\ get_context(c)' = get_context(c)]_vars

C8_ReplaceIffDiffers ==
    (call.op = "provision" /\ call.existing /\ call.path # "")
        => /\ call.path \in {"replace", "update"}
           /\ (call.path = "replace") <=> call.differs

\* C9: on the replace path the create request for the new service is
\* submitted only once the old service has been observed deleted, also when
\* the inner Deprovision times out or fails.
C9_CreateAfterAbsent ==
    (call.op = "provision" /\ call.path = "replace" /\ call.create_submitted)
        => call.old_status_at_create \in {"DELETED", "GONE"}

\* C10: Provision called again with the spec of the previous successful
\* Provision, against the service that call produced, takes the in-place
\* update path and issues no delete_service, whatever the spec.
C10_ReplaySafe ==
    (call.op = "provision" /\ call.replay)
        => /\ call.path \in {"update", ""}
           /\ \A i \in 1..Len(call.api) : call.api[i] # "delete_service"

\* The last reconciler call issued the remote API call n.
CallIssued(n) == \E i \in 1..Len(call.api) : call.api[i] = n

\* Position i of the last call's API log comes after the poll that follows
\* delete_service.
AfterPoll(i) ==
    \E j \in 1..(i - 1), k \in 1..(i - 1) :
        /\ k < j
        /\ call.api[k] = "delete_service"
        /\ call.api[j] = "describe_service"

CleanupCalls == {"describe_secret", "delete_secret",
                 "delete_auto_scaling_configuration"}

\* C11: Deprovision deletes the secret and the auto-scaling configuration
\* only after the poll has observed ABSENT; when the poll ends in an error
\* status or a timeout it returns that state and issues neither delete.
C11_CleanupAfterAbsent ==
    call.op = "deprovision" =>
        /\ \A i \in 1..Len(call.api) :
              call.api[i] \in CleanupCalls
                  => /\ call.polled = "ABSENT"
                     /\ call.raised \in {"", "DeployerError"}
                     /\ AfterPoll(i)
        /\ (call.raised = "" /\ call.status # "ABSENT")
              => /\ call.status \in {"ERROR", "PENDING"}
                 /\ \A n \in CleanupCalls : ~CallIssued(n)

C11_Witness ==
    /\ call.op = "deprovision"
    /\ call.raised = ""
    /\ call.status = "PENDING"
    /\ CallIssued("delete_service")
    /\ meta.secret_arn # 0 /\ sec[meta.secret_arn].exists
    /\ meta.auto_scaling_configuration_arn # 0
    /\ ascs[meta.auto_scaling_configuration_arn].state = "active"

\* The last call was a Deprovision that observed ABSENT, returned None and
\* met no remote failure, so every cleanup call it made succeeded.
CleanTeardown ==
    /\ call.op = "deprovision"
    /\ call.raised = ""
    /\ call.status = "ABSENT"
    /\ call.faults = 0

\* C12: after any sequence of Provision calls followed by a Deprovision
\* that observes ABSENT and whose cleanup calls all succeed, the endpoint's
\* secret no longer exists remotely.
C12_NoSecretLeft == CleanTeardown => \A i \in SecretId : ~sec[i].exists

\* C13: after Provision calls that changed the scaling values and created
\* new auto-scaling configurations, a Deprovision that observes ABSENT and
\* whose cleanup calls all succeed leaves no auto-scaling configuration of
\* the endpoint, current or stale, in existence.
C13_NoScalingConfigLeft ==
    CleanTeardown => \A a \in AscId : ascs[a].state # "active"

\* The endpoint is live: the service its metadata references exists remotely.
LiveEndpoint == meta.service_arn # 0 /\ Live(svcs[meta.service_arn])

\* C14: between reconciler calls a live endpoint has exactly one secret and
\* at most one auto-scaling configuration existing remotely on its behalf.
C14_OneSecretOnePolicy ==
    LiveEndpoint =>
        /\ Cardinality({i \in SecretId : sec[i].exists}) = 1
        /\ Cardinality({a \in AscId : ascs[a].state = "active"}) <= 1

\* The recorded auto-scaling configuration exists and its values are not
\* the ones spec s asks for.
RecordedPolicyDiffers(s) ==
    LET arn == meta.auto_scaling_configuration_arn
        sc == convert_scaling_settings_to_aws_format(s)
    IN  /\ arn # 0
        /\ ascs[arn].state = "active"
        /\ <<ascs[arn].min_size, ascs[arn].max_size, ascs[arn].max_concurrency>>
              # <<sc.min_size, sc.max_size, sc.max_concurrency>>

\* C15: a Provision that takes the in-place update path deletes no
\* auto-scaling configuration; when the desired values differ from the
\* recorded configuration it creates a new one and leaves the stale one.
C15_UpdateKeepsPolicies ==
    [][(calls' = calls + 1 /\ call'.op = "provision" /\ call'.path = "update")
         => /\ ~CallIssued("delete_auto_scaling_configuration")'
            /\ \A a \in AscId :
                  ascs[a].state = "active" => ascs'[a].state = "active"
            /\ (RecordedPolicyDiffers(call'.spec) /\ call'.raised = "")
                  => /\ CallIssued("create_auto_scaling_configuration")'
                     /\ meta'.auto_scaling_configuration_arn
                           # meta.auto_scaling_configuration_arn
                     /\ ascs'[meta'.auto_scaling_configuration_arn].state
                           = "active"]_vars

C15_Witness ==
    /\ call.op = "provision"
    /\ call.path = "update"
    /\ call.raised = ""
    /\ CallIssued("create_auto_scaling_configuration")
    /\ Cardinality({a \in AscId : ascs[a].state = "active"}) = 2

\* The recorded auto-scaling configuration resolves remotely and has the
\* values spec s asks for.
RecordedPolicyMatches(s) ==
    LET arn == meta.auto_scaling_configuration_arn
        sc == convert_scaling_settings_to_aws_format(s)
    IN  /\ arn # 0
        /\ ascs[arn].state = "active"
        /\ <<ascs[arn].min_size, ascs[arn].max_size, ascs[arn].max_concurrency>>
              = <<sc.min_size, sc.max_size, sc.max_concurrency>>

\* C16: when the recorded auto-scaling configuration still resolves and has
\* the desired values, a Provision that has not torn the endpoint down
\* issues no create and no delete of a configuration, changes no
\* configuration and, when it returns, records the same reference.
C16_EnsureIdempotent ==
    [][(/\ calls' = calls + 1
        /\ call'.op = "provision"
        /\ call'.path \in {"create", "update"}
        /\ RecordedPolicyMatches(call'.spec))
         => /\ ~CallIssued("create_auto_scaling_configuration")'
            /\ ~CallIssued("delete_auto_scaling_configuration")'
            /\ \A a \in AscId : ascs'[a].state = ascs[a].state
            /\ ascs'[meta.auto_scaling_configuration_arn]
                  = ascs[meta.auto_scaling_configuration_arn]
            /\ call'.raised = ""
                  => meta'.auto_scaling_configuration_arn
                        = meta.auto_scaling_configuration_arn]_vars

C16_Witness ==
    /\ call.op = "provision"
    /\ call.path = "update"
    /\ call.raised = ""
    /\ calls = 3
    /\ CallIssued("describe_auto_scaling_configuration")
    /\ ~CallIssued("create_auto_scaling_configuration")
    /\ Cardinality({a \in AscId : ascs[a].state # "none"}) = 1

\* C17: when the sensitive variables are non-empty and writing the secret
\* fails, Provision does not fail for that reason: when nothing else fails
\* in the call it goes on to the auto-scaling configuration and submits the
\* service create / update, and every request it submits carries every
\* sensitive variable as a plaintext environment variable and no secret
\* reference.
C17_PlaintextFallback ==
    (call.op = "provision" /\ call.request.secret_failed)
        => /\ call.spec.secrets # ""
           /\ call.faults = 1
                 => /\ call.request.submitted
                    /\ CallIssued("create_service") \/ CallIssued("update_service")
                    /\ call.raised \in {"", "PipelineEndpointDeploymentError"}
           /\ call.request.submitted
                 => /\ call.request.plaintext_secrets = call.spec.secrets
                    /\ ~call.request.secret_refs

C17_Witness ==
    /\ call.op = "provision"
    /\ call.request.secret_failed
    /\ call.raised = ""
    /\ call.request.plaintext_secrets = "S=1"
    /\ svcs[meta.service_arn].plaintext_secrets = "S=1"

\* The same desired state with other values for the sensitive variables.
OtherSecrets(s) == [s EXCEPT !.secrets = IF @ = "" THEN "" ELSE "S=2"]

OtherValue(v) == IF v = "" THEN "" ELSE "S=2"

\* The remote world of the run that used the other values all along.
WorldOfOtherSecrets ==
    [World EXCEPT
       !.sec = [i \in SecretId |-> [@[i] EXCEPT !.value = OtherValue(@)]],
       !.svcs = [a \in SvcId |->
                   [@[a] EXCEPT !.plaintext_secrets = OtherValue(@)]]]

\* C18: when secret injection succeeds, the metadata Provision returns, and
\* the metadata Inspect returns for a service submitted with secret
\* references, is the metadata the same call returns in the run that
\* differs only in the values of the sensitive variables.
C18_MetadataHidesSecrets ==
    [][/\ (/\ calls' = calls + 1
           /\ call'.op = "provision"
           /\ call'.raised = ""
           /\ call'.request.secret_refs)
            => \E r \in do_provision_pipeline_endpoint(
                            WorldOfOtherSecrets, meta,
                            OtherSecrets(call'.spec)) :
                  /\ r.out = ""
                  /\ r.w.api = call'.api
                  /\ r.meta = meta'
       /\ (/\ calls' = calls + 1
           /\ call'.op = "inspect"
           /\ call'.raised = ""
           /\ svcs[meta.service_arn].secret_refs)
            => \E r \in do_get_pipeline_endpoint(WorldOfOtherSecrets, meta) :
                  /\ r.out = ""
                  /\ r.w.api = call'.api
                  /\ r.meta = meta'
      ]_vars

C18_Witness ==
    /\ call.op = "inspect"
    /\ call.raised = ""
    /\ meta.runtime_environment_secrets
    /\ meta.secret_arn # 0
    /\ sec[meta.secret_arn].value = "S=1"

\* The step is a Deprovision whose poll observed ABSENT and whose
\* delete_secret, or delete_auto_scaling_configuration, then failed with
\* the resource still there.
SecretDeleteFailed ==
    /\ calls' = calls + 1
    /\ call'.op = "deprovision"
    /\ call'.polled = "ABSENT"
    /\ CallIssued("delete_secret")'
    /\ sec'[meta.secret_arn].exists

PolicyDeleteFailed ==
    /\ calls' = calls + 1
    /\ call'.op = "deprovision"
    /\ call'.polled = "ABSENT"
    /\ CallIssued("delete_auto_scaling_configuration")'
    /\ ascs[meta.auto_scaling_configuration_arn].state = "active"
    /\ ascs'[meta.auto_scaling_configuration_arn].state = "active"

\* C19: when the poll of a Deprovision has observed ABSENT and deleting the
\* secret or the auto-scaling configuration then fails with an error other
\* than not-found, the call raises DeployerError, and the service is not
\* created again.
C19_CleanupFailureSurfaced ==
    [][(SecretDeleteFailed \/ PolicyDeleteFailed)
         => /\ call'.raised = "DeployerError"
            /\ ~CallIssued("create_service")']_vars

\* C20: when delete_secret fails during the cleanup of a Deprovision, the
\* cleanup goes on: delete_auto_scaling_configuration is issued after it.
C20_SecretFailureDoesNotAbort ==
    [][(SecretDeleteFailed /\ meta.auto_scaling_configuration_arn # 0)
         => \E i, j \in 1..Len(call'.api) :
               /\ i < j
               /\ call'.api[i] = "delete_secret"
               /\ call'.api[j] = "delete_auto_scaling_configuration"]_vars

C24_TypedErrors ==
    call.op \in {"provision", "inspect", "deprovision"}
        => call.raised # "ClientError"

\* C33: when a Provision on the update path raises or falls back to
\* plaintext injection, the secret that the service revision still deployed
\* references, and that existed before the call, exists after it.
C33_ReferencedSecretKept ==
    [][(/\ calls' = calls + 1
        /\ call'.op = "provision"
        /\ call'.path = "update"
        /\ call'.raised # "" \/ call'.request.secret_failed
        /\ svcs[meta.service_arn].secret_arn # 0
        /\ sec[svcs[meta.service_arn].secret_arn].exists
        /\ svcs'[meta.service_arn].secret_arn = svcs[meta.service_arn].secret_arn)
         => sec'[svcs[meta.service_arn].secret_arn].exists]_vars

\* C32: Inspect, whether it returns or raises, issues only describe calls
\* and leaves the service, the secret and the auto-scaling configurations
\* as they were.
C32_InspectReadOnly ==
    [][(calls' = calls + 1 /\ call'.op = "inspect")
         => /\ \A i \in 1..Len(call'.api) :
                  call'.api[i] \in {"describe_service", "describe_secret"}
            /\ sec' = sec
            /\ \A a \in AscId : ascs'[a].state = ascs[a].state
            /\ meta.service_arn # 0
                  => svcs'[meta.service_arn] = svcs[meta.service_arn]]_vars

C32_Witness ==
    /\ call.op = "inspect"
    /\ call.raised = ""
    /\ call.api = <<"describe_service", "describe_secret">>
    /\ \E i \in SecretId : sec[i].exists

(* ==================== Part III: pure-helper claims ====================== *)
\* The status word a string spells when letter case is ignored.
SpelledStatus(str) ==
    LET Is(w) == /\ Len(str) = Len(w)
                 /\ \A i \in 1..Len(w) : lower_char(str[i]) = lower_char(w[i])
    IN  IF str = Missing THEN "none"
        ELSE IF Is(S_CREATE_FAILED) \/ Is(S_DELETE_FAILED) THEN "failed"
        ELSE IF Is(S_OPERATION_IN_PROGRESS) THEN "in progress"
        ELSE IF Is(S_RUNNING) THEN "running"
        ELSE IF Is(S_DELETED) THEN "deleted"
        ELSE IF Is(S_PAUSED) THEN "paused"
        ELSE "none"

\* C21: the status mapping is total and follows the table, whatever the
\* letter case: CREATE_FAILED and DELETE_FAILED give ERROR,
\* OPERATION_IN_PROGRESS and PAUSED give PENDING, RUNNING gives RUNNING,
\* DELETED gives ABSENT, every other or missing status gives UNKNOWN.
C21_StatusTable ==
    fn.op = "get_service_operational_state" =>
        LET spelled == SpelledStatus(fn.service.Status)
        IN  fn.out.status =
               IF spelled = "failed" THEN "ERROR"
               ELSE IF spelled \in {"in progress", "paused"} THEN "PENDING"
               ELSE IF spelled = "running" THEN "RUNNING"
               ELSE IF spelled = "deleted" THEN "ABSENT"
               ELSE "UNKNOWN"

C21_Witness ==
    /\ fn.op = "get_service_operational_state"
    /\ fn.service.Status = str_lower(S_PAUSED)
    /\ fn.out.status = "PENDING"

\* C22: in every operational state built from a service description the
\* url is non-empty if and only if the status is RUNNING.
C22_UrlIffRunning ==
    fn.op = "get_service_operational_state" =>
        (fn.out.url # <<>>) <=> (fn.out.status = "RUNNING")

\* C25: FetchLogs with follow = True fails with NotImplementedError at the
\* time of the call, having made no remote call and yielded no line.
C25_FollowFailsFast ==
    (fn.op = "do_get_pipeline_endpoint_logs" /\ fn.follow)
        => /\ fn.raised = "NotImplementedError"
           /\ fn.api = <<>>
           /\ fn.yielded = <<>>

\* The generator has run for an existing service whose log group is absent.
LogGroupAbsent ==
    /\ fn.op = "do_get_pipeline_endpoint_logs"
    /\ ~fn.follow
    /\ fn.pc # "created"
    /\ fn.remote.service = "found"
    /\ fn.remote.service_name
    /\ fn.remote.log_group = "absent"
    /\ fn.remote.fail_at \notin {"describe_service", "describe_log_streams"}

\* C26: when the service exists and listing its log streams reports
\* not-found, FetchLogs fails with PipelineLogsNotFoundError.
C26_LogsNotFound ==
    LogGroupAbsent => fn.raised = "PipelineLogsNotFoundError"

\* A name App Runner accepts for a service.
ValidServiceName(name) ==
    /\ \A i \in 1..Len(name) : name[i] \in Letters \cup Digits \cup {"-"}
    /\ \A i \in 1..(Len(name) - 1) : ~(name[i] = "-" /\ name[i + 1] = "-")
    /\ Len(name) >= 4
    /\ Len(name) <= 40
    /\ isalnum(name[1])
    /\ isalnum(name[Len(name)])

\* C27: for every raw name and every suffix the service-name sanitizer
\* fails or returns a name of letters, digits and hyphens, without
\* consecutive hyphens, starting and ending alphanumeric, 4 to 40 long.
C27_ServiceNameValid ==
    (fn.op = "sanitize_app_runner_service_name" /\ fn.out.raised = "")
        => ValidServiceName(fn.out.name)

\* name ends with the separator followed by the complete short id
EndsWithSuffix(kind, name, endpoint_id) ==
    LET suffix == <<Separator(kind)>> \o endpoint_id_short(endpoint_id)
    IN  /\ Len(name) >= Len(suffix)
        /\ SubSeq(name, Len(name) - Len(suffix) + 1, Len(name)) = suffix

\* C28: for each resource kind and endpoint name the generated name ends
\* with the separator and the complete 8-character id prefix, so endpoints
\* with different id prefixes get different names.
C28_SuffixSurvivesTruncation ==
    fn.op = "get_resource_names" =>
        /\ fn.out_a.raised = "" => EndsWithSuffix(fn.kind, fn.out_a.name, fn.id_a)
        /\ fn.out_b.raised = "" => EndsWithSuffix(fn.kind, fn.out_b.name, fn.id_b)
        /\ (/\ fn.out_a.raised = ""
            /\ fn.out_b.raised = ""
            /\ endpoint_id_short(fn.id_a) # endpoint_id_short(fn.id_b))
               => fn.out_a.name # fn.out_b.name

\* The tiers that satisfy the request of the last selection, by index.
Satisfying ==
    {i \in 1..Len(valid_combinations) :
        /\ fn.requested_cpu = NoneInt
             \/ valid_combinations[i].cpu_val >= fn.requested_cpu[1]
        /\ fn.requested_memory_gb = NoneInt
             \/ valid_combinations[i].mem_val >= fn.requested_memory_gb[1]}

Returned(i) ==
    fn.out = <<valid_combinations[i].cpu_str, valid_combinations[i].mem_str>>

\* C29: with both requirements absent the selection returns the default
\* tier (0.25 vCPU, 0.5 GB); otherwise it returns a tier that satisfies the
\* request, or the maximum tier (4 vCPU, 12 GB) when none does.
C29_TierNeverBelowRequest ==
    fn.op = "select_aws_cpu_memory_combination" =>
        IF fn.requested_cpu = NoneInt /\ fn.requested_memory_gb = NoneInt
        THEN fn.out = <<"0.25 vCPU", "0.5 GB">>
        ELSE IF Satisfying = {} THEN fn.out = <<"4 vCPU", "12 GB">>
        ELSE \E i \in Satisfying : Returned(i)

C29_Witness ==
    /\ fn.op = "select_aws_cpu_memory_combination"
    /\ fn.requested_cpu = Some(10)
    /\ fn.requested_memory_gb = Some(241)
    /\ Satisfying = {}
    /\ fn.out = <<"4 vCPU", "12 GB">>

\* 10 * (cpu - requestedCpu) + (memory - requestedMemoryGB), an absent
\* requirement contributing 0
Overage(i) ==
    10 * (IF fn.requested_cpu = NoneInt THEN 0
          ELSE valid_combinations[i].cpu_val - fn.requested_cpu[1])
    + (IF fn.requested_memory_gb = NoneInt THEN 0
       ELSE valid_combinations[i].mem_val - fn.requested_memory_gb[1])

\* C30: when a requirement is given and some tier satisfies the request,
\* the selection returns the first tier in list order among the satisfying
\* tiers of minimal overage.
C30_FirstMinimalOverage ==
    (/\ fn.op = "select_aws_cpu_memory_combination"
     /\ ~(fn.requested_cpu = NoneInt /\ fn.requested_memory_gb = NoneInt)
     /\ Satisfying # {})
        => \E i \in Satisfying :
              /\ Returned(i)
              /\ \A j \in Satisfying : Overage(i) <= Overage(j)
              /\ \A j \in Satisfying : Overage(j) = Overage(i) => i <= j

C30_Witness ==
    /\ fn.op = "select_aws_cpu_memory_combination"
    /\ fn.requested_cpu = Some(6)
    /\ fn.requested_memory_gb = Some(8)
    /\ fn.out = <<"0.5 vCPU", "1 GB">>

\* C38: when some tier satisfies the request, the selected tier has the
\* smallest CPU among the satisfying tiers and, among the satisfying tiers
\* with that CPU, the smallest memory.
C38_SmallestCpuThenMemory ==
    (fn.op = "select_aws_cpu_memory_combination" /\ Satisfying # {})
        => \E i \in Satisfying :
              /\ Returned(i)
              /\ \A j \in Satisfying :
                    /\ valid_combinations[i].cpu_val <= valid_combinations[j].cpu_val
                    /\ valid_combinations[j].cpu_val = valid_combinations[i].cpu_val
                          => valid_combinations[i].mem_val <= valid_combinations[j].mem_val

\* A request of 0.6 vCPU and 3.5 GB: 1 vCPU / 4 GB and 2 vCPU / 4 GB waste
\* the same memory, and the smaller CPU tier is returned.
C38_Witness ==
    /\ fn.op = "select_aws_cpu_memory_combination"
    /\ fn.requested_cpu = Some(12)
    /\ fn.requested_memory_gb = Some(70)
    /\ {6, 7} \subseteq Satisfying
    /\ fn.out = <<"1 vCPU", "4 GB">>

\* C31: min is 1 when absent and never below 1; max_replicas = 0 gives the
\* platform ceiling; each returned value is at most its platform maximum.
C31_ScalingClamped ==
    fn.op = "convert_scaling_settings_to_aws_format" =>
        /\ fn.min_replicas = NoneInt => fn.out.min_size = 1
        /\ fn.min_replicas = Some(0) => fn.out.min_size = 1
        /\ fn.out.min_size >= 1
        /\ fn.max_replicas = Some(0) => fn.out.max_size = AWS_APP_RUNNER_MAX_SIZE
        /\ fn.out.min_size <= AWS_APP_RUNNER_MAX_SIZE
        /\ fn.out.max_size <= AWS_APP_RUNNER_MAX_SIZE
        /\ fn.out.max_concurrency <= AWS_APP_RUNNER_MAX_CONCURRENCY

\* C39: for every requested min_replicas, max_replicas and max_concurrency
\* the normalised triple satisfies 1 <= min <= max <= 1000 and
\* 1 <= concurrency <= 1000.
C39_ValidScalingPolicy ==
    fn.op = "convert_scaling_settings_to_aws_format" =>
        /\ 1 <= fn.out.min_size
        /\ fn.out.min_size <= fn.out.max_size
        /\ fn.out.max_size <= AWS_APP_RUNNER_MAX_SIZE
        /\ 1 <= fn.out.max_concurrency
        /\ fn.out.max_concurrency <= AWS_APP_RUNNER_MAX_CONCURRENCY

\* The body the secret-name sanitizer is to give: letters, digits, hyphen,
\* underscore, period and slash kept, every other character an underscore,
\* repeated slashes collapsed, leading and trailing slashes stripped, cut to
\* leave room for the underscore and the suffix.
KeptSecretBody(name, random_suffix) ==
    LET kept == re_sub_outside(name,
                    Letters \cup Digits \cup {"-", "_", ".", "/"}, "_")
        body == strip(re_sub_runs(kept, "/"), "/")
    IN  rstrip(slice_to(body, 512 - Len(random_suffix) - 1), "/")

\* C36: the secret name generated for an endpoint is the raw name with
\* every letter, digit, hyphen, underscore, period and slash unchanged and
\* every other character replaced by an underscore, followed by the
\* underscore and the suffix.
C36_SecretNameKeepsAllowed ==
    (fn.op = "get_resource_names" /\ fn.kind = "secret" /\ fn.out_a.raised = "")
        => fn.out_a.name
             = KeptSecretBody(fn.prefix \o fn.name_a, endpoint_id_short(fn.id_a))
                 \o <<"_">> \o endpoint_id_short(fn.id_a)

\* C37: with a linked service connector and with implicit configuration
\* _get_boto_session_and_region returns a session and a region, the
\* configured region in the implicit case, and app_runner_client returns a
\* client.
C37_LazyConstructionSucceeds ==
    (fn.op = "deployer" /\ fn.cfg.connector \in {"none", "session"})
        => /\ fn.last.call = "_get_boto_session_and_region"
                => /\ fn.last.raised = ""
                   /\ fn.last.session # 0
                   /\ fn.last.region # ""
                   /\ fn.cfg.connector = "none"
                         => fn.last.region = fn.cfg.config_region
           /\ fn.last.call = "app_runner_client"
                => /\ fn.last.raised = ""
                   /\ fn.last.client # NoClient

====
